---- MODULE Spec2Model ----
(***************************************************************************)
(* A model of aicmd's error resolver, fix command and chat loop            *)
(* (src/aicmd.py), its shell accessors (src/utils/terminal_utils.py), its  *)
(* command classifier (src/utils/command_parser.py,                        *)
(* src/core/command_processor.py) and its conversation context             *)
(* (src/utils/history_manager.py).                                         *)
(*                                                                         *)
(* Texts are TLA+ strings; Len, SubSeq and \o act on them character by     *)
(* character, so stripping, substring tests and pattern matching are       *)
(* computed, not assumed.                                                  *)
(***************************************************************************)
EXTENDS Integers, Sequences, FiniteSets, Bags, TLC

VARIABLES store, now, writes, calls, res, analysis,
          errText, categorized, cmdText, parsed, safeCmd, verdict,
          conversation_memory, current_topic, context, session,
          hook, detected, executed, asked, suggestions

resolverVars == <<store, now, writes, calls, res, analysis>>
categorizeVars == <<errText, categorized>>
tokenizeVars == <<cmdText, parsed>>
safetyVars == <<safeCmd, verdict>>
contextVars == <<conversation_memory, current_topic, context, session>>
fixVars == <<hook, detected, executed>>
sourceVars == <<asked>>
suggestVars == <<suggestions>>
vars == <<store, now, writes, calls, res, analysis,
          errText, categorized, cmdText, parsed, safeCmd, verdict,
          conversation_memory, current_topic, context, session,
          hook, detected, executed, asked, suggestions>>

-----------------------------------------------------------------------------
(* Text helpers: the str methods the code uses.                            *)

Ch(s, i) == SubSeq(s, i, i)

Whitespace == {" ", "\t", "\n", "\r"}

RECURSIVE LStrip(_)
LStrip(s) ==
    IF Len(s) > 0 /\ Ch(s, 1) \in Whitespace THEN LStrip(SubSeq(s, 2, Len(s))) ELSE s

RECURSIVE RStrip(_)
RStrip(s) ==
    IF Len(s) > 0 /\ Ch(s, Len(s)) \in Whitespace
    THEN RStrip(SubSeq(s, 1, Len(s) - 1)) ELSE s

\* str.strip()
Strip(s) == RStrip(LStrip(s))

\* s.startswith(p)
StartsWith(s, p) == Len(p) <= Len(s) /\ SubSeq(s, 1, Len(p)) = p

\* the text of s from position i on
From(s, i) == SubSeq(s, i, Len(s))

\* sub in s
Contains(s, sub) ==
    \E i \in 1..(Len(s) - Len(sub) + 1) : SubSeq(s, i, i + Len(sub) - 1) = sub

\* the first position of sub in s, 0 when there is none (str.find, 1-based)
Find(s, sub) ==
    LET hits == {i \in 1..(Len(s) - Len(sub) + 1) : SubSeq(s, i, i + Len(sub) - 1) = sub}
    IN IF hits = {} THEN 0 ELSE CHOOSE i \in hits : \A j \in hits : i <= j

Digits == {"0", "1", "2", "3", "4", "5", "6", "7", "8", "9"}

DigitValue(c) ==
    CASE c = "0" -> 0 [] c = "1" -> 1 [] c = "2" -> 2 [] c = "3" -> 3 [] c = "4" -> 4
      [] c = "5" -> 5 [] c = "6" -> 6 [] c = "7" -> 7 [] c = "8" -> 8 [] c = "9" -> 9

DigitText(d) ==
    CASE d = 0 -> "0" [] d = 1 -> "1" [] d = 2 -> "2" [] d = 3 -> "3" [] d = 4 -> "4"
      [] d = 5 -> "5" [] d = 6 -> "6" [] d = 7 -> "7" [] d = 8 -> "8" [] d = 9 -> "9"

\* str.isdigit()
IsDigit(s) == Len(s) > 0 /\ \A i \in 1..Len(s) : Ch(s, i) \in Digits

\* int(s) for a string of digits
RECURSIVE ToInt(_)
ToInt(s) ==
    IF Len(s) = 0 THEN 0
    ELSE 10 * ToInt(SubSeq(s, 1, Len(s) - 1)) + DigitValue(Ch(s, Len(s)))

\* str(n) for n >= 0
RECURSIVE ToText(_)
ToText(n) == IF n < 10 THEN DigitText(n) ELSE ToText(n \div 10) \o DigitText(n % 10)

-----------------------------------------------------------------------------
(* The Evidence Store: the files under /tmp the resolver reads.            *)

LAST_ERROR == "/tmp/aicmd_last_error"
SIMPLE_ERROR == "/tmp/aicmd_simple_error"
ERROR_OUTPUT == "/tmp/aicmd_error_output"
ERROR_PID == "/tmp/aicmd_error_<pid>"
LAST_COMMAND == "/tmp/aicmd_last_command"
LAST_EXIT_CODE == "/tmp/aicmd_last_exit_code"
CURRENT_COMMAND == "/tmp/aicmd_current_command"
STDERR_A == "/tmp/aicmd_stderr_101"
STDERR_B == "/tmp/aicmd_stderr_202"

StderrFiles == {STDERR_A, STDERR_B}

Files == {LAST_ERROR, SIMPLE_ERROR, ERROR_OUTPUT, ERROR_PID, LAST_COMMAND,
          LAST_EXIT_CODE, CURRENT_COMMAND} \cup StderrFiles

\* A file that does not exist.
NoFile == [exists |-> FALSE, content |-> "", mtime |-> 0, mode |-> "ok"]

\* mode "ok": open and read succeed; "unreadable": open raises an OSError;
\* "binary": read raises UnicodeDecodeError (a ValueError, no OSError);
\* "vanishing": the file is there when os.path.exists or glob looks and gone
\* right after, so getmtime, stat, open and os.remove raise FileNotFoundError.
File(content, mtime, mode) ==
    [exists |-> TRUE, content |-> content, mtime |-> mtime, mode |-> mode]

EmptyStore == [f \in Files |-> NoFile]

-----------------------------------------------------------------------------
(* What one detection strategy hands back.  kind "value": a non-empty      *)
(* error text; "none": the strategy returned None; "raise": an exception   *)
(* left the strategy.  src is the file (or accessor) the text came from,   *)
(* age the age of that file at the call, store the store after the call.   *)

Value(text, src, age, st) ==
    [kind |-> "value", text |-> text, src |-> src, age |-> age, store |-> st]

Nothing(st) == [kind |-> "none", text |-> "", src |-> "", age |-> 0, store |-> st]

Raised(st) == [kind |-> "raise", text |-> "", src |-> "", age |-> 0, store |-> st]

\* `if file_age > 30` in get_error_from_temp_file
FRESH_ERROR == 30

\* `< 60` in get_error_from_stderr_capture
FRESH_STDERR == 60

\* the files cleanup_temp_files removes
cleanup_list == {LAST_ERROR, SIMPLE_ERROR, LAST_COMMAND, LAST_EXIT_CODE,
                 CURRENT_COMMAND, ERROR_OUTPUT}

\* a purge that clears every file of the store
cleanup_temp_files_all(st) == [f \in Files |-> NoFile]

cleanup_temp_files(st) == [f \in Files |-> IF f \in cleanup_list THEN NoFile ELSE st[f]]

\* the files get_error_from_temp_file tries, in order
temp_files == <<LAST_ERROR, SIMPLE_ERROR, ERROR_OUTPUT, ERROR_PID>>

\* a suffix appended whenever the command file has a text, part of the error
\* text or not
with_full_command_always(error_content, c) ==
    LET full_command == IF c.exists /\ c.mode = "ok" THEN Strip(c.content) ELSE ""
    IN IF full_command # ""
       THEN error_content \o "\nFailed command: " \o full_command
       ELSE error_content

\* The "Failed command" suffix: the command file's text is appended unless it
\* is empty or already part of the error text; an unreadable command file is
\* skipped.
with_full_command(error_content, c) ==
    LET full_command == IF c.exists /\ c.mode = "ok" THEN Strip(c.content) ELSE ""
    IN IF full_command # "" /\ ~Contains(error_content, full_command)
       THEN error_content \o "\nFailed command: " \o full_command
       ELSE error_content

RECURSIVE temp_file_loop(_, _, _)
temp_file_loop(st, t, i) ==
    IF i > Len(temp_files) THEN Nothing(st)
    ELSE LET temp_file == temp_files[i]
             r == st[temp_file]
             file_age == t - r.mtime
         IN IF ~r.exists THEN temp_file_loop(st, t, i + 1)
            ELSE IF file_age > FRESH_ERROR THEN temp_file_loop(st, t, i + 1)
            ELSE IF r.mode \in {"unreadable", "vanishing"}
            THEN temp_file_loop(st, t, i + 1)
            ELSE IF r.mode = "binary" THEN Raised(st)
            ELSE LET error_content == Strip(r.content)
                     c == st[LAST_COMMAND]
                 IN IF error_content = "" THEN temp_file_loop(st, t, i + 1)
                    ELSE IF c.exists /\ c.mode = "binary" THEN Raised(st)
                    ELSE Value(with_full_command(error_content, c), temp_file,
                               file_age, cleanup_temp_files(st))

\* strategy 1
get_error_from_temp_file(st, t) == temp_file_loop(st, t, 1)

-----------------------------------------------------------------------------
(* The shell accessors of TerminalUtils.  env is what the call finds        *)
(* outside the store: the shell named by $SHELL, the history's last line   *)
(* and what running the shell to echo its status does.                     *)
(* A command is "" and a code is NoCode where the code has None.           *)

NoCode == -1

LastCommand(cmd, code) == [cmd |-> cmd, code |-> code]

NoLastCommand == LastCommand("", NoCode)

get_shell(env) == env.shell

\* int(out.strip()) if out.strip().isdigit() else None
status_of(out) == IF IsDigit(Strip(out)) THEN ToInt(Strip(out)) ELSE NoCode

\* the subprocess could not be started
probe_fails_to_start(env) == env.probe.kind \in {"missing", "denied"}

get_bash_last_command(env) ==
    IF ~env.hist.exists \/ probe_fails_to_start(env) THEN NoLastCommand
    ELSE LastCommand(Strip(env.hist.last), status_of(env.probe.out))

get_zsh_last_command(env) ==
    IF ~env.hist.exists \/ probe_fails_to_start(env) THEN NoLastCommand
    ELSE LET last_line == Strip(env.hist.last)
             semi == Find(last_line, ";")
             last_command == IF semi > 0 THEN From(last_line, semi + 1) ELSE last_line
         IN LastCommand(last_command, status_of(env.probe.out))

\* fish: the evidence files first, the shell's own history after them
fish_from_files(st) ==
    LET c == st[LAST_COMMAND]
        e == st[LAST_EXIT_CODE]
    IN IF c.exists /\ e.exists /\ c.mode = "ok" /\ e.mode = "ok"
          /\ IsDigit(Strip(e.content)) /\ Strip(c.content) # ""
       THEN LastCommand(Strip(c.content), ToInt(Strip(e.content)))
       ELSE NoLastCommand

get_fish_last_command(st, env) ==
    IF fish_from_files(st) # NoLastCommand THEN fish_from_files(st)
    ELSE IF env.probe.kind # "ok" THEN NoLastCommand
    ELSE IF env.hist.exists /\ Strip(env.hist.last) # ""
    THEN LastCommand(Strip(env.hist.last), status_of(env.probe.out))
    ELSE NoLastCommand

get_last_command(st, env) ==
    CASE get_shell(env) = "bash" -> get_bash_last_command(env)
      [] get_shell(env) = "zsh" -> get_zsh_last_command(env)
      [] get_shell(env) = "fish" -> get_fish_last_command(st, env)
      [] OTHER -> NoLastCommand

\* the fallback of strategy 2
history_fallback(st, env) ==
    LET lc == get_last_command(st, env)
    IN IF lc.cmd # "" /\ lc.code # NoCode /\ lc.code # 0
       THEN IF lc.code = 127
            THEN Value("Command '" \o lc.cmd \o "' not found", "history", 0, st)
            ELSE Value("Command '" \o lc.cmd \o "' failed with exit code "
                       \o ToText(lc.code), "history", 0, st)
       ELSE Nothing(st)

\* strategy 2
get_error_from_shell_history(st, t, env) ==
    LET c == st[LAST_COMMAND]
        e == st[LAST_EXIT_CODE]
        last_command == Strip(c.content)
    IN IF ~c.exists \/ c.mode \in {"unreadable", "vanishing"}
       THEN history_fallback(st, env)
       ELSE IF c.mode = "binary" THEN Nothing(st)
       ELSE IF last_command = "" THEN history_fallback(st, env)
       ELSE IF e.exists /\ e.mode \in {"unreadable", "vanishing"}
       THEN history_fallback(st, env)
       ELSE IF e.exists /\ e.mode = "binary" THEN Nothing(st)
       ELSE IF e.exists /\ Strip(e.content) = "127"
       THEN Value("Command '" \o last_command \o "' not found", LAST_COMMAND,
                  t - c.mtime, st)
       ELSE Value("Command '" \o last_command \o "' failed", LAST_COMMAND,
                  t - c.mtime, st)

\* strategy 3
get_error_from_exit_code(st, env) ==
    IF get_shell(env) \notin {"bash", "zsh", "fish"} THEN Nothing(st)
    ELSE IF env.probe.kind = "denied" THEN Raised(st)
    ELSE IF env.probe.kind # "ok" THEN Nothing(st)
    ELSE IF Strip(env.probe.out) # "0"
    THEN Value("Last command failed with exit code " \o Strip(env.probe.out),
               "probe", 0, st)
    ELSE Nothing(st)

\* min instead of max: the capture modified longest ago
latest_stderr_oldest(st, env) ==
    LET found == {f \in StderrFiles : st[f].exists}
        oldest == {f \in found : \A g \in found : st[f].mtime <= st[g].mtime}
    IN IF env.globFirst \in oldest THEN env.globFirst ELSE CHOOSE f \in oldest : TRUE

\* max(stderr_files, key=mtime): the first of the newest in the glob's order
latest_stderr(st, env) ==
    LET found == {f \in StderrFiles : st[f].exists}
        newest == {f \in found : \A g \in found : st[g].mtime <= st[f].mtime}
    IN IF env.globFirst \in newest THEN env.globFirst ELSE CHOOSE f \in newest : TRUE

\* strategy 4
get_error_from_stderr_capture(st, t, env) ==
    IF \A f \in StderrFiles : ~st[f].exists THEN Nothing(st)
    ELSE IF \E f \in StderrFiles : st[f].exists /\ st[f].mode = "vanishing"
    THEN Nothing(st)
    ELSE LET f == latest_stderr(st, env)
             r == st[f]
         IN IF ~(t - r.mtime < FRESH_STDERR) THEN Nothing(st)
            ELSE IF r.mode = "unreadable" THEN Nothing(st)
            ELSE IF r.mode = "binary" THEN Raised(st)
            ELSE IF Strip(r.content) # ""
            THEN Value(Strip(r.content), f, t - r.mtime, st)
            ELSE Nothing(st)

-----------------------------------------------------------------------------
(* The resolver.                                                           *)

error_sources == <<"get_error_from_temp_file", "get_error_from_shell_history",
                   "get_error_from_exit_code", "get_error_from_stderr_capture">>

\* an evidence-file source that purges what it found of no use
call_source_sweeping(i, st, t, env) ==
    CASE i = 1 ->
           LET o == get_error_from_temp_file(st, t)
           IN IF o.kind = "none" THEN [o EXCEPT !.store = cleanup_temp_files(st)] ELSE o
      [] i = 2 -> get_error_from_shell_history(st, t, env)
      [] i = 3 -> get_error_from_exit_code(st, env)
      [] i = 4 -> get_error_from_stderr_capture(st, t, env)

\* a shell-history source that purges the files it read once it has a result
call_source_purging(i, st, t, env) ==
    CASE i = 1 -> get_error_from_temp_file(st, t)
      [] i = 2 ->
           LET o == get_error_from_shell_history(st, t, env)
           IN IF o.kind = "value" THEN [o EXCEPT !.store = cleanup_temp_files(st)] ELSE o
      [] i = 3 -> get_error_from_exit_code(st, env)
      [] i = 4 -> get_error_from_stderr_capture(st, t, env)

\* source_func(logger)
call_source(i, st, t, env) ==
    CASE i = 1 -> get_error_from_temp_file(st, t)
      [] i = 2 -> get_error_from_shell_history(st, t, env)
      [] i = 3 -> get_error_from_exit_code(st, env)
      [] i = 4 -> get_error_from_stderr_capture(st, t, env)

\* What detect_last_error hands back: the error (kind "value") or None (kind
\* "none"), or an exception that left it (kind "exception"); strategy is the
\* index of the source that produced the error (0: none), invoked the sources
\* called, in order, raised those that raised.
Resolved(o, kind, strategy, invoked, raised) ==
    [kind |-> kind, text |-> o.text, src |-> o.src, age |-> o.age,
     store |-> o.store, strategy |-> strategy, invoked |-> invoked,
     raised |-> raised]

\* detect_loop without its `except Exception`: an exception leaves the resolver
RECURSIVE detect_loop_propagating(_, _, _, _, _, _)
detect_loop_propagating(st, t, env, i, invoked, raised) ==
    IF i > Len(error_sources) THEN Resolved(Nothing(st), "none", 0, invoked, raised)
    ELSE LET o == call_source(i, st, t, env)
             called == Append(invoked, i)
         IN CASE o.kind = "value" -> Resolved(o, "value", i, called, raised)
              [] o.kind = "raise" -> Resolved(o, "exception", 0, called, raised \cup {i})
              [] OTHER -> detect_loop_propagating(o.store, t, env, i + 1, called, raised)

\* a resolver that goes on after a source gave an error and keeps the last one
RECURSIVE detect_last_loop(_, _, _, _, _, _, _)
detect_last_loop(st, t, env, i, invoked, raised, best) ==
    IF i > Len(error_sources) THEN best
    ELSE LET o == call_source(i, st, t, env)
             called == Append(invoked, i)
         IN CASE o.kind = "value" ->
                   detect_last_loop(o.store, t, env, i + 1, called, raised,
                                    Resolved(o, "value", i, called, raised))
              [] o.kind = "raise" ->
                   detect_last_loop(o.store, t, env, i + 1, called, raised \cup {i},
                                    [best EXCEPT !.invoked = called,
                                                 !.raised = raised \cup {i}])
              [] OTHER ->
                   detect_last_loop(o.store, t, env, i + 1, called, raised,
                                    [best EXCEPT !.invoked = called])

detect_last_wins(st, t, env) ==
    detect_last_loop(st, t, env, 1, <<>>, {}, Resolved(Nothing(st), "none", 0, <<>>, {}))

RECURSIVE detect_loop(_, _, _, _, _, _)
detect_loop(st, t, env, i, invoked, raised) ==
    IF i > Len(error_sources) THEN Resolved(Nothing(st), "none", 0, invoked, raised)
    ELSE LET o == call_source(i, st, t, env)
             called == Append(invoked, i)
         IN CASE o.kind = "value" -> Resolved(o, "value", i, called, raised)
              [] o.kind = "raise" ->
                   detect_loop(o.store, t, env, i + 1, called, raised \cup {i})
              [] OTHER -> detect_loop(o.store, t, env, i + 1, called, raised)

detect_last_error(st, t, env) == detect_loop(st, t, env, 1, <<>>, {})

-----------------------------------------------------------------------------
(* Regular expressions, as far as the classifier's patterns use them.  A   *)
(* pattern is a sequence of items: a literal text, or a greedy repetition  *)
(* of one character class, which may be the capture group.  Matching is    *)
(* Python's: the leftmost start, and at each repetition the longest run    *)
(* that lets the rest of the pattern match.                                *)

UpperLetters == "ABCDEFGHIJKLMNOPQRSTUVWXYZ"
LowerLetters == "abcdefghijklmnopqrstuvwxyz"

UpperSet == {Ch(UpperLetters, i) : i \in 1..Len(UpperLetters)}
LowerSet == {Ch(LowerLetters, i) : i \in 1..Len(LowerLetters)}

LowerOf == [c \in UpperSet |-> Ch(LowerLetters, Find(UpperLetters, c))]

LowerCh(c) == IF c \in UpperSet THEN LowerOf[c] ELSE c

\* str.lower()
RECURSIVE Lower(_)
Lower(s) == IF Len(s) = 0 THEN "" ELSE LowerCh(Ch(s, 1)) \o Lower(SubSeq(s, 2, Len(s)))

Lit(s) == [t |-> "lit", s |-> s, cls |-> "", min |-> 0, many |-> FALSE, grp |-> FALSE]

\* min or more characters of a class when many, one character otherwise
Rep(cls, min, many, grp) ==
    [t |-> "rep", s |-> "", cls |-> cls, min |-> min, many |-> many, grp |-> grp]

\* (.+)
Capture == Rep("any", 1, TRUE, TRUE)
\* .*
AnyStar == Rep("any", 0, TRUE, FALSE)
\* [: ]*
ColonSpaceStar == Rep("colonspace", 0, TRUE, FALSE)
\* \s+ and \s*
SpacePlus == Rep("space", 1, TRUE, FALSE)
SpaceStar == Rep("space", 0, TRUE, FALSE)
\* \d+
DigitPlus == Rep("digit", 1, TRUE, FALSE)
\* [A-Z] and [06]
OneUpper == Rep("upper", 1, FALSE, FALSE)
ZeroOrSix == Rep("zerosix", 1, FALSE, FALSE)

\* whether character c (lower-cased already when ic) is in the class
ClassHas(cls, c, ic) ==
    CASE cls = "any" -> c # "\n"
      [] cls = "colonspace" -> c \in {":", " "}
      [] cls = "space" -> c \in Whitespace
      [] cls = "digit" -> c \in Digits
      [] cls = "upper" -> IF ic THEN c \in LowerSet ELSE c \in UpperSet
      [] cls = "zerosix" -> c \in {"0", "6"}

\* how many characters of the class stand at pos: all of them when many,
\* at most one otherwise
RECURSIVE RunLen(_, _, _, _, _)
RunLen(cls, lt, pos, ic, many) ==
    IF pos > Len(lt) \/ ~ClassHas(cls, Ch(lt, pos), ic) THEN 0
    ELSE IF many THEN 1 + RunLen(cls, lt, pos + 1, ic, many) ELSE 1

NoGroup == [has |-> FALSE, text |-> ""]
Group(text) == [has |-> TRUE, text |-> text]

NoMatch == [ok |-> FALSE, g |-> NoGroup]

\* items k.. of pattern p matched at position pos of text (lt: the text as
\* compared, lower-cased when ic)
RECURSIVE MatchFrom(_, _, _, _, _, _)
MatchFrom(p, text, lt, ic, k, pos) ==
    IF k > Len(p) THEN [ok |-> TRUE, g |-> NoGroup]
    ELSE IF p[k].t = "lit"
    THEN LET lit == p[k].s
         IN IF pos + Len(lit) - 1 <= Len(lt) /\ SubSeq(lt, pos, pos + Len(lit) - 1) = lit
            THEN MatchFrom(p, text, lt, ic, k + 1, pos + Len(lit))
            ELSE NoMatch
    ELSE LET run == RunLen(p[k].cls, lt, pos, ic, p[k].many)
             good == {n \in p[k].min..run : MatchFrom(p, text, lt, ic, k + 1, pos + n).ok}
         IN IF good = {} THEN NoMatch
            ELSE LET n == CHOOSE m \in good : \A o \in good : o <= m
                     rest == MatchFrom(p, text, lt, ic, k + 1, pos + n)
                 IN [ok |-> TRUE,
                     g |-> IF p[k].grp THEN Group(SubSeq(text, pos, pos + n - 1))
                           ELSE rest.g]

RECURSIVE SearchFrom(_, _, _, _, _)
SearchFrom(p, text, lt, ic, pos) ==
    IF pos > Len(text) + 1 THEN NoMatch
    ELSE LET m == MatchFrom(p, text, lt, ic, 1, pos)
         IN IF m.ok THEN m ELSE SearchFrom(p, text, lt, ic, pos + 1)

\* the pattern with its literals in lower case
LowerPattern(p) ==
    [k \in 1..Len(p) |-> IF p[k].t = "lit" THEN [p[k] EXCEPT !.s = Lower(@)] ELSE p[k]]

\* re.search(p, text) and re.search(p, text, re.IGNORECASE): with
\* IGNORECASE the match is found on the lower-cased pattern and text, the
\* group is cut from the text as given
Search(p, text, ic) ==
    IF ic THEN SearchFrom(LowerPattern(p), text, Lower(text), TRUE, 1)
    ELSE SearchFrom(p, text, text, FALSE, 1)

\* re.match(p, text)
Match(p, text) == MatchFrom(p, text, text, FALSE, 1, 1)

-----------------------------------------------------------------------------
(* The command classifier: CommandParser.                                  *)

Rule(pattern, category) == [pattern |-> pattern, category |-> category]

error_patterns ==
    << Rule(<<Lit("bash: "), Capture, Lit(": command not found")>>, "command_not_found"),
       Rule(<<Lit("zsh: command not found: "), Capture>>, "command_not_found"),
       Rule(<<Lit("fish: Unknown command"), ColonSpaceStar, Capture>>, "command_not_found"),
       Rule(<<Lit("'"), Capture,
              Lit("' is not recognized as an internal or external command")>>,
            "command_not_found"),
       Rule(<<Lit("No such file or directory"), ColonSpaceStar, Capture>>, "file_not_found"),
       Rule(<<Lit("cannot access"), ColonSpaceStar, Capture>>, "file_not_found"),
       Rule(<<Lit("Permission denied"), ColonSpaceStar, Capture>>, "permission_denied"),
       Rule(<<Lit("curl: ("), DigitPlus, Lit(") "), Capture>>, "network_error"),
       Rule(<<Lit("wget: "), Capture>>, "network_error"),
       Rule(<<Lit("Connection refused")>>, "connection_refused"),
       Rule(<<Lit("E: Unable to locate package "), Capture>>, "package_not_found"),
       Rule(<<Lit("No package '"), Capture, Lit("' found")>>, "package_not_found"),
       Rule(<<Lit("brew: command not found")>>, "homebrew_not_installed"),
       Rule(<<Lit("fatal: not a git repository")>>, "not_git_repo"),
       Rule(<<Lit("error: pathspec '"), Capture, Lit("' did not match any file")>>,
            "git_pathspec_error"),
       Rule(<<Lit("docker: Error response from daemon: "), Capture>>, "docker_error"),
       Rule(<<Lit("Cannot connect to the Docker daemon")>>, "docker_daemon_error"),
       Rule(<<Lit("ModuleNotFoundError: No module named '"), Capture, Lit("'")>>,
            "python_module_not_found"),
       Rule(<<Lit("SyntaxError: "), Capture>>, "python_syntax_error"),
       Rule(<<Lit("npm ERR! "), Capture>>, "npm_error"),
       Rule(<<Lit("Error: Cannot find module '"), Capture, Lit("'")>>,
            "node_module_not_found") >>

Categorized(category, extracted) == [category |-> category, extracted |-> extracted]

\* a classifier in which the last matching rule wins
RECURSIVE categorize_last_loop(_, _, _)
categorize_last_loop(error_text, i, best) ==
    IF i > Len(error_patterns) THEN best
    ELSE LET m == Search(error_patterns[i].pattern, error_text, TRUE)
         IN categorize_last_loop(error_text, i + 1,
              IF m.ok THEN Categorized(error_patterns[i].category, m.g) ELSE best)

categorize_last_match(error_text) ==
    categorize_last_loop(error_text, 1, Categorized("unknown_error", NoGroup))

RECURSIVE categorize_loop(_, _)
categorize_loop(error_text, i) ==
    IF i > Len(error_patterns) THEN Categorized("unknown_error", NoGroup)
    ELSE LET m == Search(error_patterns[i].pattern, error_text, TRUE)
         IN IF m.ok THEN Categorized(error_patterns[i].category, m.g)
            ELSE categorize_loop(error_text, i + 1)

categorize_error(error_text) == categorize_loop(error_text, 1)

\* the patterns extract_command_from_error tries first
command_patterns ==
    << <<Lit("Command '"), Capture, Lit("' failed")>>,
       <<Lit("bash: "), Capture, Lit(": command not found")>>,
       <<Lit("zsh: command not found: "), Capture>>,
       <<Lit("fish: Unknown command"), ColonSpaceStar, Capture>>,
       <<Lit("Error running command: "), Capture>>,
       <<Lit("Failed to execute: "), Capture>> >>

\* ^\$\s+(.+)
prompt_pattern == <<Lit("$"), SpacePlus, Capture>>

common_names == {"ls", "cd", "git", "npm", "pip", "docker"}

\* text.split('\n')
RECURSIVE SplitLines(_)
SplitLines(s) ==
    LET nl == Find(s, "\n")
    IN IF nl = 0 THEN <<s>> ELSE <<SubSeq(s, 1, nl - 1)>> \o SplitLines(From(s, nl + 1))

RECURSIVE extract_from_patterns(_, _)
extract_from_patterns(error_text, i) ==
    IF i > Len(command_patterns) THEN NoGroup
    ELSE LET m == Search(command_patterns[i], error_text, FALSE)
         IN IF m.ok THEN Group(Strip(m.g.text))
            ELSE extract_from_patterns(error_text, i + 1)

RECURSIVE extract_from_lines(_, _)
extract_from_lines(lines, i) ==
    IF i > Len(lines) THEN NoGroup
    ELSE LET line == lines[i]
             m == Match(prompt_pattern, Strip(line))
         IN IF m.ok THEN m.g
            ELSE IF ~StartsWith(line, " ") /\ \E cmd \in common_names : Contains(line, cmd)
            THEN Group(Strip(line))
            ELSE extract_from_lines(lines, i + 1)

extract_command_from_error(error_text) ==
    LET found == extract_from_patterns(error_text, 1)
    IN IF found.has THEN found ELSE extract_from_lines(SplitLines(error_text), 1)

-----------------------------------------------------------------------------
(* parse_command: shlex.split, with str.split as its fallback, then the    *)
(* classification of the tokens.                                           *)

Quotes == {"'", "\""}
Backslash == "\\"

SplitOk(parts) == [ok |-> TRUE, parts |-> parts]
\* ValueError: no closing quotation, or no escaped character
SplitFailed == [ok |-> FALSE, parts |-> <<>>]

\* shlex in POSIX mode with whitespace_split and no comment characters, read
\* character by character.  state " ": between tokens; "a": in a word; a
\* quote character: inside those quotes; the backslash: after an escape
\* (escapedstate is the state to go back to).  quoted: the token had quotes.
Lexer(state, token, quoted, escapedstate, out) ==
    [state |-> state, token |-> token, quoted |-> quoted,
     escapedstate |-> escapedstate, out |-> out]

\* the lexer after reading character c
shlex_read(m, c) ==
    CASE m.state = " " ->
           IF c \in Whitespace THEN m
           ELSE IF c = Backslash THEN Lexer(Backslash, "", FALSE, "a", m.out)
           ELSE IF c \in Quotes THEN Lexer(c, "", TRUE, m.escapedstate, m.out)
           ELSE Lexer("a", c, FALSE, m.escapedstate, m.out)
      [] m.state \in Quotes ->
           IF c = m.state THEN [m EXCEPT !.state = "a"]
           ELSE IF c = Backslash /\ m.state = "\""
           THEN [m EXCEPT !.state = Backslash, !.escapedstate = m.state]
           ELSE [m EXCEPT !.token = @ \o c]
      [] m.state = Backslash ->
           IF m.escapedstate \in Quotes /\ c # Backslash /\ c # m.escapedstate
           THEN [m EXCEPT !.state = m.escapedstate, !.token = @ \o Backslash \o c]
           ELSE [m EXCEPT !.state = m.escapedstate, !.token = @ \o c]
      [] OTHER ->
           IF c \in Whitespace
           THEN Lexer(" ", "", FALSE, m.escapedstate,
                      IF m.token # "" \/ m.quoted THEN Append(m.out, m.token) ELSE m.out)
           ELSE IF c \in Quotes THEN [m EXCEPT !.state = c, !.quoted = TRUE]
           ELSE IF c = Backslash THEN [m EXCEPT !.state = Backslash, !.escapedstate = "a"]
           ELSE [m EXCEPT !.token = @ \o c]

RECURSIVE shlex_loop(_, _, _)
shlex_loop(s, i, m) ==
    IF i > Len(s) \/ m.state = "" THEN m
    ELSE shlex_loop(s, i + 1, shlex_read(m, Ch(s, i)))

\* at the end of the input: ValueError inside quotes or after a backslash,
\* the last token otherwise
shlex_split(s) ==
    LET m == shlex_loop(s, 1, Lexer(" ", "", FALSE, "a", <<>>))
    IN IF m.state \in Quotes \/ m.state = Backslash THEN SplitFailed
       ELSE IF m.state = "a" /\ (m.token # "" \/ m.quoted)
       THEN SplitOk(Append(m.out, m.token))
       ELSE SplitOk(m.out)

\* str.split(): the runs of non-whitespace characters
RECURSIVE split_loop(_, _, _, _)
split_loop(s, i, token, out) ==
    IF i > Len(s) THEN (IF token # "" THEN Append(out, token) ELSE out)
    ELSE split_loop(s, i + 1,
                    IF Ch(s, i) \in Whitespace THEN "" ELSE token \o Ch(s, i),
                    IF Ch(s, i) \in Whitespace /\ token # "" THEN Append(out, token)
                    ELSE out)

str_split(s) == split_loop(s, 1, "", <<>>)

\* no fallback: nothing is left of a command line shlex cannot split
command_parts_unsplit(command) == shlex_split(command).parts

\* the tokens parse_command works on
command_parts(command) ==
    IF shlex_split(command).ok THEN shlex_split(command).parts ELSE str_split(command)

redirection_operators == {">", ">>", "<", "|", "2>", "2>>", "&>", "&>>"}

\* a dict that keeps the value a key was first given
dict_set_first(d, key, value) ==
    IF \E j \in 1..Len(d) : d[j][1] = key THEN d ELSE Append(d, <<key, value>>)

\* options[key] = value on a dict kept as its sequence of items: a key already
\* there keeps its place and takes the new value
dict_set(d, key, value) ==
    IF \E j \in 1..Len(d) : d[j][1] = key
    THEN [j \in 1..Len(d) |-> IF d[j][1] = key THEN <<key, value>> ELSE d[j]]
    ELSE Append(d, <<key, value>>)

Parsed(command, base_command, arguments, flags, options, redirections) ==
    [command |-> command, base_command |-> base_command, arguments |-> arguments,
     flags |-> flags, options |-> options, redirections |-> redirections]

RECURSIVE parse_loop(_, _, _)
parse_loop(parts, i, acc) ==
    IF i > Len(parts) THEN acc
    ELSE LET part == parts[i]
         IN IF part \in redirection_operators
            THEN IF i + 1 <= Len(parts)
                 THEN parse_loop(parts, i + 2,
                        [acc EXCEPT !.redirections = Append(@, <<part, parts[i + 1]>>)])
                 ELSE parse_loop(parts, i + 1,
                        [acc EXCEPT !.redirections = Append(@, <<part, "">>)])
            ELSE IF StartsWith(part, "-")
            THEN IF Contains(part, "=")
                 THEN LET eq == Find(part, "=")
                      IN parse_loop(parts, i + 1,
                           [acc EXCEPT !.options =
                              dict_set(@, SubSeq(part, 1, eq - 1), From(part, eq + 1))])
                 ELSE IF i + 1 <= Len(parts) /\ ~StartsWith(parts[i + 1], "-")
                 THEN parse_loop(parts, i + 2,
                        [acc EXCEPT !.options = dict_set(@, part, parts[i + 1])])
                 ELSE parse_loop(parts, i + 1, [acc EXCEPT !.flags = Append(@, part)])
            ELSE parse_loop(parts, i + 1, [acc EXCEPT !.arguments = Append(@, part)])

parse_command(command) ==
    LET parts == command_parts(command)
    IN IF parts = <<>> THEN Parsed("", "", <<>>, <<>>, <<>>, <<>>)
       ELSE parse_loop(parts, 2, Parsed(command, parts[1], <<>>, <<>>, <<>>, <<>>))

-----------------------------------------------------------------------------
(* The fix suggester.                                                      *)

\* the alternatives table of _suggest_command_alternatives
alternatives(command) ==
    CASE command = "ls" -> <<"dir", "find . -maxdepth 1">>
      [] command = "ll" -> <<"ls -la", "ls -l">>
      [] command = "cat" -> <<"type", "more", "less">>
      [] command = "grep" -> <<"findstr", "select-string">>
      [] command = "ps" -> <<"Get-Process", "tasklist">>
      [] command = "kill" -> <<"Stop-Process", "taskkill">>
      [] command = "wget" -> <<"curl -O", "Invoke-WebRequest">>
      [] command = "curl" -> <<"wget", "Invoke-RestMethod">>
      [] command = "python" -> <<"python3", "py">>
      [] command = "pip" -> <<"pip3", "python -m pip">>
      [] command = "node" -> <<"nodejs">>
      [] command = "npm" -> <<"yarn", "pnpm">>
      [] command = "git" -> <<"Install git first">>
      [] command = "docker" -> <<"Install Docker first">>
      [] command = "vim" -> <<"nano", "code", "notepad">>
      [] command = "nano" -> <<"vim", "code", "notepad">>
      [] OTHER -> <<>>

typo_keys == {"gti", "cd..", "ks", "sl", "clar", "claer", "grpe", "mkdi", "toutch"}

typo_corrections(command) ==
    CASE command = "gti" -> "git"
      [] command = "cd.." -> "cd .."
      [] command = "ks" -> "ls"
      [] command = "sl" -> "ls"
      [] command \in {"clar", "claer"} -> "clear"
      [] command = "grpe" -> "grep"
      [] command = "mkdi" -> "mkdir"
      [] command = "toutch" -> "touch"

\* the alternatives table alone, the typo table left out
suggest_command_alternatives_untyped(command) == alternatives(command)

suggest_command_alternatives(command) ==
    IF command \in typo_keys
    THEN <<typo_corrections(command)>> \o alternatives(command)
    ELSE alternatives(command)

\* " ".join(parts)
RECURSIVE Join(_)
Join(parts) ==
    IF parts = <<>> THEN ""
    ELSE IF Len(parts) = 1 THEN parts[1]
    ELSE parts[1] \o " " \o Join(Tail(parts))

RECURSIVE suggest_file_fixes(_)
suggest_file_fixes(arguments) ==
    IF arguments = <<>> THEN <<>>
    ELSE LET arg == Head(arguments)
         IN (IF arg # "" /\ ~StartsWith(arg, "-")
             THEN <<IF Contains(arg, ".") THEN "touch " \o arg ELSE "mkdir -p " \o arg,
                    "find . -name '*" \o arg \o "*' -type f",
                    "ls -la | grep " \o arg>>
             ELSE <<>>) \o suggest_file_fixes(Tail(arguments))

install_command(package_manager, pkg) ==
    CASE package_manager \in {"apt", "apt-get"} ->
           <<"sudo apt update && sudo apt install " \o pkg>>
      [] package_manager = "yum" -> <<"sudo yum install " \o pkg>>
      [] package_manager = "dnf" -> <<"sudo dnf install " \o pkg>>
      [] package_manager = "brew" -> <<"brew install " \o pkg>>
      [] package_manager = "pip" -> <<"pip install " \o pkg>>
      [] package_manager = "npm" -> <<"npm install " \o pkg>>
      [] OTHER -> <<>>

RECURSIVE suggest_package_install(_, _)
suggest_package_install(package_manager, packages) ==
    IF packages = <<>> THEN <<>>
    ELSE (IF Head(packages) # "" /\ ~StartsWith(Head(packages), "-")
          THEN install_command(package_manager, Head(packages)) ELSE <<>>)
         \o suggest_package_install(package_manager, Tail(packages))

suggest_command_fixes(failed_command, error_category) ==
    LET p == parse_command(failed_command)
    IN CASE error_category = "command_not_found" ->
              suggest_command_alternatives(p.base_command)
         [] error_category = "permission_denied" ->
              <<"sudo " \o failed_command, "chmod +x " \o Join(p.arguments)>>
         [] error_category = "file_not_found" -> suggest_file_fixes(p.arguments)
         [] error_category = "package_not_found" ->
              suggest_package_install(p.base_command, p.arguments)
         [] OTHER -> <<>>

-----------------------------------------------------------------------------
(* The two safety checks.                                                  *)

\* the deny-list of CommandParser.is_safe_command
dangerous_patterns ==
    << <<Lit("rm"), SpacePlus, Lit("-rf"), SpacePlus, Lit("/")>>,
       <<Lit("rm"), SpacePlus, Lit("-rf"), SpacePlus, Lit("*")>>,
       <<Lit("dd"), SpacePlus, Lit("if=")>>,
       <<Lit("mkfs.")>>,
       <<Lit("fdisk")>>,
       <<Lit("format"), SpacePlus, OneUpper, Lit(":")>>,
       <<Lit("shutdown")>>,
       <<Lit("reboot")>>,
       <<Lit("halt")>>,
       <<Lit("init"), SpacePlus, ZeroOrSix>>,
       <<Lit(":(){"), SpaceStar, Lit(":|:&"), SpaceStar, Lit("}"), SpaceStar, Lit(";:")>>,
       <<Lit("chmod"), SpacePlus, Lit("-R"), SpacePlus, Lit("777"), SpacePlus, Lit("/")>>,
       <<Lit("chown"), SpacePlus, Lit("-R")>>,
       <<Lit("curl"), AnyStar, Lit("|"), SpaceStar, Lit("sh")>>,
       <<Lit("wget"), AnyStar, Lit("|"), SpaceStar, Lit("sh")>> >>

\* (bool, reason); of a "dangerous" reason the fixed part is kept, the
\* pattern the source appends to it is left out
Verdict(safe, reason) == [safe |-> safe, reason |-> reason]

is_safe_command(command) ==
    IF \E i \in 1..Len(dangerous_patterns) : Search(dangerous_patterns[i], command, TRUE).ok
    THEN Verdict(FALSE, "Potentially dangerous command detected")
    ELSE Verdict(TRUE, "Command appears safe")

\* the deny-list of CommandProcessor.validate_command_safety
dangerous_substrings ==
    {"rm -rf /", "rm -rf *", "dd if=", "mkfs.", "fdisk", "format", "shutdown", "reboot",
     "halt", "init 0", "init 6", ":(){ :|:& };:", "chmod -R 777 /", "chown -R",
     "sudo su", "curl | sh", "wget | sh"}

validate_command_safety(command) ==
    LET command_lower == Lower(command)
    IN IF \E pattern \in dangerous_substrings : Contains(command_lower, pattern)
       THEN Verdict(FALSE, "Potentially dangerous command detected")
       ELSE IF Contains(command_lower, " > /dev/") \/ Contains(command_lower, " >> /dev/")
       THEN Verdict(FALSE, "Command attempts to write to device files")
       ELSE IF (Contains(command_lower, "curl") \/ Contains(command_lower, "wget"))
               /\ (Contains(command, "|") \/ Contains(command, ";"))
       THEN Verdict(FALSE, "Command downloads and executes content from the internet")
       ELSE Verdict(TRUE, "Command appears safe")

-----------------------------------------------------------------------------
(* The conversation context of chat mode (src/utils/history_manager.py).   *)
(* A context is the pair conversation_memory, current_topic; the topic     *)
(* None is "".                                                             *)

max_context_messages == 10

QA(question, answer, has_code, timestamp) ==
    [question |-> question, answer |-> answer, has_code |-> has_code,
     timestamp |-> timestamp]

Context(memory, topic) == [conversation_memory |-> memory, current_topic |-> topic]

\* sq[-n:]
LastN(sq, n) == SubSeq(sq, IF Len(sq) > n THEN Len(sq) - n + 1 ELSE 1, Len(sq))

\* the topics dict of _update_current_topic, in its order
topics ==
    <<[topic |-> "git",
       keywords |-> <<"git", "repository", "commit", "branch", "merge", "push", "pull">>],
      [topic |-> "python",
       keywords |-> <<"python", "django", "flask", "pandas", "numpy", "pip">>],
      [topic |-> "javascript",
       keywords |-> <<"javascript", "node", "npm", "react", "vue", "angular">>],
      [topic |-> "docker",
       keywords |-> <<"docker", "container", "image", "dockerfile", "compose">>],
      [topic |-> "linux",
       keywords |-> <<"linux", "ubuntu", "bash", "shell", "terminal", "command">>],
      [topic |-> "database",
       keywords |-> <<"sql", "database", "mysql", "postgresql", "mongodb", "query">>],
      [topic |-> "web",
       keywords |-> <<"http", "api", "rest", "web", "server", "client", "html", "css">>]>>

\* the score of one topic: one point for each (question, keyword) pair with
\* the keyword a substring of the lower-cased question
topic_score(keywords, questions_lower) ==
    Cardinality({h \in (1..Len(questions_lower)) \X (1..Len(keywords)) :
                    Contains(questions_lower[h[1]], keywords[h[2]])})

\* scores taken over every stored question, not the last three only
topic_scores_whole(memory) ==
    LET questions_lower == [i \in 1..Len(memory) |-> Lower(memory[i].question)]
    IN [b \in 1..Len(topics) |-> topic_score(topics[b].keywords, questions_lower)]

\* topic_scores over the questions of memory[-3:]
topic_scores(memory) ==
    LET recent == LastN(memory, 3)
        questions_lower == [i \in 1..Len(recent) |-> Lower(recent[i].question)]
    IN [b \in 1..Len(topics) |-> topic_score(topics[b].keywords, questions_lower)]

\* max(topic_scores, key=topic_scores.get): the first topic with the highest
\* score
\* the highest score, taking the bucket declared last among equals
highest_topic_last(scores) ==
    topics[CHOOSE b \in 1..Len(topics) :
              /\ \A c \in 1..Len(topics) : scores[c] <= scores[b]
              /\ \A c \in (b + 1)..Len(topics) : scores[c] < scores[b]].topic

highest_topic(scores) ==
    topics[CHOOSE b \in 1..Len(topics) :
              /\ \A c \in 1..Len(topics) : scores[c] <= scores[b]
              /\ \A c \in 1..(b - 1) : scores[c] < scores[b]].topic

\* a topic update that unsets the topic when no keyword is hit
update_current_topic_clearing(memory, topic) ==
    IF memory = <<>> THEN topic
    ELSE IF \E b \in 1..Len(topics) : topic_scores(memory)[b] > 0
    THEN highest_topic(topic_scores(memory))
    ELSE ""

update_current_topic(memory, topic) ==
    IF memory = <<>> THEN topic
    ELSE IF \E b \in 1..Len(topics) : topic_scores(memory)[b] > 0
    THEN highest_topic(topic_scores(memory))
    ELSE topic

\* a record that keeps the first max_context_messages exchanges
add_qa_pair_keeping_first(cc, qa_pair) ==
    LET appended == Append(cc.conversation_memory, qa_pair)
        memory == IF Len(appended) > max_context_messages
                  THEN SubSeq(appended, 1, max_context_messages) ELSE appended
    IN Context(memory, update_current_topic(memory, cc.current_topic))

add_qa_pair(cc, qa_pair) ==
    LET appended == Append(cc.conversation_memory, qa_pair)
        memory == IF Len(appended) > max_context_messages
                  THEN LastN(appended, max_context_messages) ELSE appended
    IN Context(memory, update_current_topic(memory, cc.current_topic))

\* a clear that leaves the topic
clear_context_keeping_topic(cc) == Context(<<>>, cc.current_topic)

clear_context(cc) == Context(<<>>, "")

\* set(text.lower().split())
words_of(text) ==
    LET parts == str_split(Lower(text)) IN {parts[i] : i \in 1..Len(parts)}

\* an answer handed on whole
shown_answer_whole(answer) == answer

\* qa['answer'][:200] + '...' if len(qa['answer']) > 200 else qa['answer']
shown_answer(answer) ==
    IF Len(answer) > 200 THEN SubSeq(answer, 1, 200) \o "..." ELSE answer

Related(question, answer, similarity) ==
    [question |-> question, answer |-> answer, similarity |-> similarity]

\* the exchanges of memory[-5:] with at least 2 words in common, in order
RECURSIVE related_loop(_, _, _, _)
related_loop(window, current_words, i, related_qa) ==
    IF i > Len(window) THEN related_qa
    ELSE related_loop(window, current_words, i + 1,
            IF Cardinality(current_words \cap words_of(window[i].question)) >= 2
            THEN Append(related_qa,
                        Related(window[i].question, shown_answer(window[i].answer),
                                Cardinality(current_words
                                            \cap words_of(window[i].question))))
            ELSE related_qa)

\* a sort that puts the newest first among the equally similar
RECURSIVE sort_by_similarity_newest(_, _)
sort_by_similarity_newest(related_qa, similarity) ==
    IF similarity < 0 THEN <<>>
    ELSE LET same == SelectSeq(related_qa, LAMBDA x : x.similarity = similarity)
         IN [i \in 1..Len(same) |-> same[Len(same) + 1 - i]]
            \o sort_by_similarity_newest(related_qa, similarity - 1)

\* list.sort(key=similarity, reverse=True): stable, the highest first
RECURSIVE sort_by_similarity(_, _)
sort_by_similarity(related_qa, similarity) ==
    IF similarity < 0 THEN <<>>
    ELSE SelectSeq(related_qa, LAMBDA x : x.similarity = similarity)
         \o sort_by_similarity(related_qa, similarity - 1)

\* a search over the whole ring, not its last five exchanges
find_related_qa_whole(memory, current_question) ==
    LET found == related_loop(memory, words_of(current_question), 1, <<>>)
        sorted == sort_by_similarity(found, Cardinality(words_of(current_question)))
    IN SubSeq(sorted, 1, IF Len(sorted) > 3 THEN 3 ELSE Len(sorted))

\* a search that lists the least similar first
find_related_qa_ascending(memory, current_question) ==
    LET found == related_loop(LastN(memory, 5), words_of(current_question), 1, <<>>)
        sorted == sort_by_similarity(found, Cardinality(words_of(current_question)))
        reversed == [i \in 1..Len(sorted) |-> sorted[Len(sorted) + 1 - i]]
    IN SubSeq(reversed, 1, IF Len(reversed) > 3 THEN 3 ELSE Len(reversed))

find_related_qa(memory, current_question) ==
    LET found == related_loop(LastN(memory, 5), words_of(current_question), 1, <<>>)
        sorted == sort_by_similarity(found, Cardinality(words_of(current_question)))
    IN SubSeq(sorted, 1, IF Len(sorted) > 3 THEN 3 ELSE Len(sorted))

languages == {"python", "javascript", "java", "c++", "go", "rust", "php", "ruby"}

technologies == {"git", "docker", "kubernetes", "react", "vue", "angular", "django",
                 "flask"}

\* _extract_recent_topics: list(set), its order left open
extract_recent_topics(memory) ==
    {name \in languages \cup technologies :
        \E i \in 1..Len(LastN(memory, 3)) :
            Contains(Lower(LastN(memory, 3)[i].question), name)}

\* HistoryManager.get_history(limit) of a history file given by its lines
get_history(lines, limit) ==
    SelectSeq([i \in 1..Len(LastN(lines, limit)) |-> Strip(LastN(lines, limit)[i])],
              LAMBDA line : line # "")

get_context_for_question(cc, lines, current_question) ==
    [previous_questions |-> get_history(lines, 5),
     recent_topics |-> extract_recent_topics(cc.conversation_memory),
     related_qa |-> find_related_qa(cc.conversation_memory, current_question),
     current_topic |-> cc.current_topic]

-----------------------------------------------------------------------------
(* What the variables hold before anything has run.                        *)

NoEvidence == [error |-> "", command |-> "", code |-> "", age |-> 0]

NoAnalysis ==
    [done |-> FALSE, error |-> "", command |-> NoGroup, category |-> "",
     extracted |-> NoGroup, evidence |-> NoEvidence]

NoCategorized == [done |-> FALSE, result |-> Categorized("", NoGroup)]

NoParsed == [done |-> FALSE, result |-> Parsed("", "", <<>>, <<>>, <<>>, <<>>)]

NoVerdict == [done |-> FALSE, by |-> "", safe |-> TRUE, reason |-> ""]

NoContext ==
    [done |-> FALSE, question |-> "",
     bundle |-> [previous_questions |-> <<>>, recent_topics |-> {},
                 related_qa |-> <<>>, current_topic |-> ""]]

\* what has been recorded since the last clear, the topic before the last
\* operation, the operation, the chat history file and the questions answered
NoSession ==
    [recorded |-> <<>>, before |-> "", op |-> "", clock |-> 0, history |-> <<>>,
     answered |-> <<>>]

\* the source last called alone: which one, in what surroundings, on what
\* store, and what it handed back
NoAsked ==
    [strategy |-> 0, env |-> [shell |-> ""], before |-> EmptyStore,
     kind |-> "none", text |-> "", src |-> "", age |-> 0]

IdleSource == asked = NoAsked

NoSuggestions == [done |-> FALSE, category |-> "", result |-> <<>>]

IdleSuggest == suggestions = NoSuggestions

IdleContext ==
    /\ conversation_memory = <<>>
    /\ current_topic = ""
    /\ context = NoContext
    /\ session = NoSession

NoHook == [cmd |-> "", args |-> "", pc |-> 0, raced |-> {}]

IdleFix ==
    /\ hook = NoHook
    /\ detected = <<>>
    /\ executed = <<>>

-----------------------------------------------------------------------------
(* The resolver's world: shell hooks write evidence files, time passes,    *)
(* and the tool is run.                                                    *)

MaxWrites == 2

\* the instants of the clock the model samples, in seconds
Times == {0, 30, 60}

\* what a hook (or anything else writing under /tmp) may leave in a file
HookContents(f) ==
    CASE f = LAST_ERROR ->
           {<<"Command 'lls' not found", "ok">>, <<" \n", "ok">>, <<"", "binary">>}
      [] f = SIMPLE_ERROR -> {<<"Command 'lls' not found\n", "ok">>}
      [] f = ERROR_OUTPUT -> {<<"ls: cannot access 'x': No such file or directory\n", "ok">>}
      [] f = ERROR_PID -> {<<"Command 'lls -la' failed with exit code 2", "ok">>}
      [] f = LAST_COMMAND -> {<<"lls\n", "ok">>, <<"", "binary">>, <<"", "unreadable">>}
      [] f = LAST_EXIT_CODE ->
           {<<"127\n", "ok">>, <<"1\n", "ok">>, <<"0\n", "ok">>, <<"abc\n", "ok">>}
      [] f = CURRENT_COMMAND -> {<<"lls\n", "ok">>}
      [] f = STDERR_A -> {<<"lls: command not found\n", "ok">>, <<"", "binary">>}
      [] f = STDERR_B -> {<<"gti: command not found\n", "ok">>}

NoHistory == [exists |-> FALSE, last |-> ""]

History(last) == [exists |-> TRUE, last |-> last]

Probe(kind, out) == [kind |-> kind, out |-> out]

Env(shell, hist, probe, globFirst) ==
    [shell |-> shell, hist |-> hist, probe |-> probe, globFirst |-> globFirst]

\* The surroundings a call is tried in.  A probe of kind "ok" echoed its
\* status; "timeout": the shell took longer than the probe waits; "missing":
\* its binary is not there; "denied": it may not be executed; "nonzero_rc":
\* it exited non-zero.
Envs ==
    {Env("bash", NoHistory, Probe("ok", "0\n"), STDERR_A),
     Env("bash", History("lls\n"), Probe("ok", "127\n"), STDERR_B),
     Env("bash", History("lls\n"), Probe("denied", ""), STDERR_A),
     Env("zsh", History(": 1700000000:0;gti st\n"), Probe("timeout", "2\n"), STDERR_A),
     Env("fish", History("lls\n"), Probe("ok", ""), STDERR_A),
     Env("sh", History("lls\n"), Probe("ok", "127\n"), STDERR_A)}

\* What each source gives when called alone on the store as the resolver
\* found it: the yardstick the resolver's own answer is held against.
Alone(st, t, env) ==
    [i \in 1..Len(error_sources) |->
        LET o == call_source(i, st, t, env)
        IN [kind |-> o.kind, text |-> o.text, src |-> o.src]]

\* what the call before this one read from the store, while no hook has
\* written since
NoPrevious == [kind |-> "none", text |-> "", src |-> "", strategy |-> 0, at |-> 0]

NoResult ==
    [kind |-> "none", text |-> "", src |-> "", age |-> 0, strategy |-> 0,
     invoked |-> <<>>, raised |-> {}, at |-> 0,
     alone |-> [i \in 1..Len(error_sources) |-> [kind |-> "none", text |-> "", src |-> ""]],
     previous |-> NoPrevious]

\* a shell hook writes one evidence file; what the last call gave is kept
\* only while no hook has written since
HookWrite(f, w) ==
    /\ writes < MaxWrites
    /\ store' = [store EXCEPT ![f] = File(w[1], now, w[2])]
    /\ writes' = writes + 1
    /\ res' = NoResult
    /\ calls' = FALSE
    /\ UNCHANGED <<now, analysis>>
    /\ UNCHANGED <<sourceVars, suggestVars,
                   categorizeVars, tokenizeVars, safetyVars, contextVars, fixVars>>

\* time passes
Tick(t) ==
    /\ t > now
    /\ now' = t
    /\ UNCHANGED <<store, writes, calls, res, analysis>>
    /\ UNCHANGED <<sourceVars, suggestVars,
                   categorizeVars, tokenizeVars, safetyVars, contextVars, fixVars>>

\* the tool is run to detect the last error
test_error_detection(env) ==
    /\ LET r == detect_last_error(store, now, env)
       IN /\ store' = r.store
          /\ res' = [kind |-> r.kind, text |-> r.text, src |-> r.src, age |-> r.age,
                     strategy |-> r.strategy, invoked |-> r.invoked,
                     raised |-> r.raised, at |-> now, alone |-> Alone(store, now, env),
                     previous |-> IF calls /\ res.src \in Files
                                  THEN [kind |-> res.kind, text |-> res.text,
                                        src |-> res.src, strategy |-> res.strategy,
                                        at |-> res.at]
                                  ELSE NoPrevious]
    /\ calls' = TRUE
    /\ UNCHANGED <<now, writes, analysis>>
    /\ UNCHANGED <<sourceVars, suggestVars,
                   categorizeVars, tokenizeVars, safetyVars, contextVars, fixVars>>

InitResolver ==
    /\ IdleSource /\ IdleSuggest /\ IdleContext /\ IdleFix
    /\ store = EmptyStore
    /\ now = 0
    /\ writes = 0
    /\ calls = FALSE
    /\ res = NoResult
    /\ analysis = NoAnalysis
    /\ errText = "" /\ categorized = NoCategorized
    /\ cmdText = "" /\ parsed = NoParsed
    /\ safeCmd = "" /\ verdict = NoVerdict

NextResolver ==
    \/ \E f \in Files : \E w \in HookContents(f) : HookWrite(f, w)
    \/ \E t \in Times : Tick(t)
    \/ \E env \in Envs : test_error_detection(env)

Spec == InitResolver /\ [][NextResolver]_vars

-----------------------------------------------------------------------------
(* Properties of the resolver.                                             *)

\* the sources that, called alone on the store the resolver found, gave an error
Givers == {i \in 1..Len(error_sources) : res.alone[i].kind = "value"}

FirstGiver == CHOOSE i \in Givers : \A j \in Givers : i <= j

Invoked == {res.invoked[k] : k \in 1..Len(res.invoked)}

\* C1: an error file of the evidence-file source whose age is 30 seconds or
\* more, exactly 30 included, is never the source of the resolver's result.
CounterC1 ==
    calls /\ res.kind = "value" /\ res.strategy = 1 => res.age < 30

\* the error family the spec has purged with a consumed record
error_family == {LAST_ERROR, SIMPLE_ERROR, LAST_COMMAND, LAST_EXIT_CODE, CURRENT_COMMAND}

\* C2: after a call that returned a result of the evidence-file source, with
\* no hook write since, no file of the error family exists, and a call right
\* after it gets nothing from the evidence-file source and goes on to the
\* shell-history source.
CounterC2 ==
    calls =>
      /\ res.strategy = 1 => \A f \in error_family : ~store[f].exists
      /\ res.previous.strategy = 1 /\ res.previous.at = res.at =>
            res.strategy # 1 /\ 2 \in Invoked

\* C3: once a call has returned a failure, no later call within the same 30
\* seconds, with no hook write in between, returns that same failure again,
\* whichever source it comes from.
CounterC3 ==
    calls /\ res.kind = "value" /\ res.previous.kind = "value"
          /\ res.at - res.previous.at < 30 =>
      ~(res.src = res.previous.src /\ res.text = res.previous.text)

\* C4: the sources are tried in the order evidence file, shell history,
\* exit-code probe, stderr capture; the result is that of the first source
\* in this order that gives an error, no source after it is called, and the
\* result is None exactly when none of the four gives an error.
ThmC4 ==
    calls =>
      IF Givers = {}
      THEN res.kind = "none" /\ res.invoked = <<1, 2, 3, 4>>
      ELSE /\ res.kind = "value"
           /\ res.strategy = FirstGiver
           /\ res.text = res.alone[FirstGiver].text
           /\ res.src = res.alone[FirstGiver].src
           /\ res.invoked = [k \in 1..FirstGiver |-> k]

\* a later source had an error to give too, and was not called
WitnessC4 ==
    /\ calls /\ res.kind = "value" /\ res.strategy = 2
    /\ res.alone[4].kind = "value" /\ res.invoked = <<1, 2>>

\* C5: a source that raises counts as one that returned nothing: the
\* resolver goes on with the next source in order, and no exception ever
\* reaches its caller.
ThmC5 ==
    calls =>
      /\ res.kind \in {"value", "none"}
      /\ \A i \in Invoked : res.alone[i].kind = "raise" =>
            /\ i \in res.raised
            /\ res.strategy # i
            /\ i < Len(error_sources) => (i + 1) \in Invoked
      /\ \A i \in res.raised : res.alone[i].kind = "raise"

\* a source raised and a later one gave the result
WitnessC5 ==
    calls /\ res.kind = "value" /\ \E i \in res.raised : i < res.strategy

-----------------------------------------------------------------------------
(* End to end: a failed command has left its error family behind, some     *)
(* seconds pass, and the detection is run and its result analysed.         *)

FamilyErrors ==
    {"Command 'lls' not found", "bash: lls: command not found",
     "Command 'gti st' failed with exit code 1", "zsh: command not found: sl"}

FamilyCommands == {"lls", "gti st", "sl"}

FamilyCodes == {"127", "1", "0"}

\* the ages the end-to-end runs look at, in seconds
Ages == {5, 30, 31}

EndToEndEnvs ==
    {Env("bash", NoHistory, Probe("ok", "0\n"), STDERR_A),
     Env("fish", History("lls\n"), Probe("ok", "127\n"), STDERR_A)}

Evidence(st, t) ==
    [error |-> st[LAST_ERROR].content, command |-> st[LAST_COMMAND].content,
     code |-> st[LAST_EXIT_CODE].content, age |-> t - st[LAST_ERROR].mtime]

\* what test_error_detection of src/test.py prints for a detected error
Analysis(error, failed_command, categorized_as, evidence) ==
    [done |-> TRUE, error |-> error, command |-> failed_command,
     category |-> categorized_as.category, extracted |-> categorized_as.extracted,
     evidence |-> evidence]

\* test_error_detection of src/test.py: the resolver's result, the command
\* extracted from it and its category
debug_error_detection(env) ==
    /\ \E r \in {detect_last_error(store, now, env)} :
         /\ store' = r.store
         /\ res' = [kind |-> r.kind, text |-> r.text, src |-> r.src, age |-> r.age,
                    strategy |-> r.strategy, invoked |-> r.invoked,
                    raised |-> r.raised, at |-> now, alone |-> NoResult.alone,
                    previous |-> NoPrevious]
         /\ analysis' =
              IF r.kind = "value"
              THEN Analysis(r.text, extract_command_from_error(r.text),
                            categorize_error(r.text), Evidence(store, now))
              ELSE [NoAnalysis EXCEPT !.done = TRUE, !.evidence = Evidence(store, now)]
    /\ calls' = TRUE
    /\ UNCHANGED <<now, writes>>
    /\ UNCHANGED <<sourceVars, suggestVars,
                   categorizeVars, tokenizeVars, safetyVars, contextVars, fixVars>>

InitEndToEnd ==
    /\ IdleSource /\ IdleSuggest /\ IdleContext /\ IdleFix
    /\ \E e \in FamilyErrors : \E c \in FamilyCommands : \E x \in FamilyCodes :
         store = [EmptyStore EXCEPT ![LAST_ERROR] = File(e, 0, "ok"),
                                    ![LAST_COMMAND] = File(c, 0, "ok"),
                                    ![LAST_EXIT_CODE] = File(x, 0, "ok")]
    /\ now = 0
    /\ writes = 0
    /\ calls = FALSE
    /\ res = NoResult
    /\ analysis = NoAnalysis
    /\ errText = "" /\ categorized = NoCategorized
    /\ cmdText = "" /\ parsed = NoParsed
    /\ safeCmd = "" /\ verdict = NoVerdict

NextEndToEnd ==
    \/ \E t \in Ages : Tick(t)
    \/ \E env \in EndToEndEnvs : debug_error_detection(env)

SpecEndToEnd == InitEndToEnd /\ [][NextEndToEnd]_vars

\* what the suggester gives for the analysed error
Suggestions ==
    IF analysis.command.has
    THEN suggest_command_fixes(analysis.command.text, analysis.category)
    ELSE <<>>

\* C6: with LastError "Command 'lls' not found" aged 5 seconds, LastCommand
\* "lls" and LastExitCode "127", the analysis of the resolver's result gives
\* the command lls and the category command_not_found, and the suggester's
\* first proposal is ls.
CounterC6 ==
    /\ analysis.done
    /\ analysis.evidence = [error |-> "Command 'lls' not found", command |-> "lls",
                            code |-> "127", age |-> 5]
    => /\ analysis.command = Group("lls")
       /\ analysis.category = "command_not_found"
       /\ Suggestions # <<>> /\ Head(Suggestions) = "ls"

-----------------------------------------------------------------------------
(* The classifier on error texts: a name set in the messages the rules     *)
(* know.                                                                   *)

MaxNameLen == 2

NameAlphabet == {"l", "s", " ", ":", "\n"}

\* the texts over NameAlphabet of at most n characters
RECURSIVE Words(_)
Words(n) ==
    IF n = 0 THEN {""}
    ELSE Words(n - 1) \cup {w \o c : w \in Words(n - 1), c \in NameAlphabet}

Names == Words(MaxNameLen)

ErrorTexts ==
    UNION {{"bash: " \o x \o ": command not found",
            "BASH: " \o x \o ": COMMAND NOT FOUND",
            "zsh: command not found: " \o x,
            "fish: Unknown command: " \o x,
            "bash: " \o x \o ": command not found\nzsh: command not found: " \o x,
            "Permission denied: No such file or directory " \o x,
            "wget: " \o x \o " Connection refused",
            "bash: brew: command not found" \o x,
            "ls: cannot access '" \o x \o "': No such file or directory",
            x} : x \in Names}

\* the classifier is given the text
categorize ==
    /\ ~categorized.done
    /\ categorized' = [done |-> TRUE, result |-> categorize_error(errText)]
    /\ UNCHANGED <<errText, sourceVars, suggestVars, resolverVars,
                   tokenizeVars, safetyVars, contextVars, fixVars>>

InitCategorize ==
    /\ IdleSource /\ IdleSuggest /\ IdleContext /\ IdleFix
    /\ store = EmptyStore
    /\ now = 0
    /\ writes = 0
    /\ calls = FALSE
    /\ res = NoResult
    /\ analysis = NoAnalysis
    /\ errText \in ErrorTexts /\ categorized = NoCategorized
    /\ cmdText = "" /\ parsed = NoParsed
    /\ safeCmd = "" /\ verdict = NoVerdict

NextCategorize == categorize

SpecCategorize == InitCategorize /\ [][NextCategorize]_vars

\* the rules whose pattern is found in the text
MatchingRules(text) ==
    {i \in 1..Len(error_patterns) : Search(error_patterns[i].pattern, text, TRUE).ok}

FirstMatching(text) ==
    CHOOSE i \in MatchingRules(text) : \A j \in MatchingRules(text) : i <= j

\* the result is that of the first matching rule, unknown_error when none matches
FirstMatchWins ==
    IF MatchingRules(errText) = {}
    THEN categorized.result = Categorized("unknown_error", NoGroup)
    ELSE /\ categorized.result.category = error_patterns[FirstMatching(errText)].category
         /\ categorized.result.extracted =
              Search(error_patterns[FirstMatching(errText)].pattern, errText, TRUE).g
         /\ categorized.result.category # "unknown_error"

BashPrefix == "bash: "
BashSuffix == ": command not found"

\* the text is "bash: X: command not found" for some X
IsBashForm(text) ==
    /\ Len(text) >= Len(BashPrefix) + Len(BashSuffix)
    /\ StartsWith(text, BashPrefix)
    /\ From(text, Len(text) - Len(BashSuffix) + 1) = BashSuffix

BashName(text) == SubSeq(text, Len(BashPrefix) + 1, Len(text) - Len(BashSuffix))

\* C7 as stated: first match wins, unknown_error exactly when no rule
\* matches, and every text "bash: X: command not found" gives
\* command_not_found with X.
CounterC7 ==
    categorized.done =>
      /\ FirstMatchWins
      /\ IsBashForm(errText) =>
           categorized.result = Categorized("command_not_found", Group(BashName(errText)))

\* C7: categorize_error gives the category and first group of the first rule
\* in declaration order whose pattern is found in the text, however many
\* later rules match too, and unknown_error with no group exactly when none
\* is found; a text "bash: X: command not found" with X not empty and free
\* of line breaks gives command_not_found with X.
ThmC7 ==
    categorized.done =>
      /\ FirstMatchWins
      /\ IsBashForm(errText) /\ BashName(errText) # "" /\ ~Contains(BashName(errText), "\n") =>
           categorized.result = Categorized("command_not_found", Group(BashName(errText)))

\* two rules match "bash: brew: command not found" and the first one wins
WitnessC7 ==
    /\ categorized.done
    /\ errText = "bash: brew: command not found"
    /\ MatchingRules(errText) = {1, 13}
    /\ categorized.result = Categorized("command_not_found", Group("brew"))

-----------------------------------------------------------------------------
(* The tokenizer on command lines: a base command followed by words of a   *)
(* small vocabulary.                                                       *)

MaxWords == 3

Vocabulary == {"-r", "-I", "-I=a", "--x=*.py", "'foo'", "src", ">", "it's"}

\* "grep" followed by at most n words
RECURSIVE Lines(_)
Lines(n) ==
    IF n = 0 THEN {"grep"}
    ELSE Lines(n - 1) \cup {l \o " " \o w : l \in Lines(n - 1), w \in Vocabulary}

CommandLines ==
    Lines(MaxWords) \cup {"grep -r --include=*.py 'foo' src", "gcc -I a -I b", "ls 2>", "",
                           "  "}

\* the tokenizer is given the command line
tokenize ==
    /\ ~parsed.done
    /\ parsed' = [done |-> TRUE, result |-> parse_command(cmdText)]
    /\ UNCHANGED <<cmdText, sourceVars, suggestVars, resolverVars,
                   categorizeVars, safetyVars, contextVars, fixVars>>

InitTokenize ==
    /\ IdleSource /\ IdleSuggest /\ IdleContext /\ IdleFix
    /\ store = EmptyStore
    /\ now = 0
    /\ writes = 0
    /\ calls = FALSE
    /\ res = NoResult
    /\ analysis = NoAnalysis
    /\ errText = "" /\ categorized = NoCategorized
    /\ cmdText \in CommandLines /\ parsed = NoParsed
    /\ safeCmd = "" /\ verdict = NoVerdict

NextTokenize == tokenize

SpecTokenize == InitTokenize /\ [][NextTokenize]_vars

\* the tokens of the command line, and those after the first
Tokens == command_parts(cmdText)

Rest == IF Tokens = <<>> THEN <<>> ELSE Tail(Tokens)

RECURSIVE BagOf(_)
BagOf(sq) == IF sq = <<>> THEN EmptyBag ELSE SetToBag({Head(sq)}) (+) BagOf(Tail(sq))

\* the tokens a result accounts for, when the options in asOne were written
\* key=value and the others as two tokens, and the last redirection's empty
\* target stands for a missing token when noTarget
RECURSIVE OptionTokens(_, _, _)
OptionTokens(options, j, asOne) ==
    IF j > Len(options) THEN <<>>
    ELSE (IF j \in asOne THEN <<options[j][1] \o "=" \o options[j][2]>>
          ELSE <<options[j][1], options[j][2]>>) \o OptionTokens(options, j + 1, asOne)

RECURSIVE RedirectionTokens(_, _, _)
RedirectionTokens(redirections, j, noTarget) ==
    IF j > Len(redirections) THEN <<>>
    ELSE (IF j = Len(redirections) /\ noTarget /\ redirections[j][2] = ""
          THEN <<redirections[j][1]>>
          ELSE <<redirections[j][1], redirections[j][2]>>)
         \o RedirectionTokens(redirections, j + 1, noTarget)

AccountedFor(r, tokens) ==
    \E asOne \in SUBSET (1..Len(r.options)) : \E noTarget \in BOOLEAN :
       BagOf(r.flags \o r.arguments \o OptionTokens(r.options, 1, asOne)
             \o RedirectionTokens(r.redirections, 1, noTarget)) = BagOf(tokens)

\* C8: every token after the first is found in exactly one of flags,
\* options, arguments and redirections: the result accounts for each token
\* once, no token lost and none counted twice.
CounterC8 ==
    parsed.done => AccountedFor(parsed.result, Rest)

IsDash(token) == StartsWith(token, "-")

\* what the rules of C9 make of the token at position i > 1
Role(i) ==
    IF IsDash(Tokens[i])
    THEN IF Contains(Tokens[i], "=") THEN "key=value"
         ELSE IF i < Len(Tokens) /\ ~IsDash(Tokens[i + 1]) THEN "key"
         ELSE "flag"
    ELSE IF i > 2 /\ IsDash(Tokens[i - 1]) /\ ~Contains(Tokens[i - 1], "=") THEN "value"
    ELSE "argument"

\* the tokens of a role, in their order
RECURSIVE WithRole(_, _)
WithRole(role, i) ==
    IF i > Len(Tokens) THEN <<>>
    ELSE (IF Role(i) = role THEN <<Tokens[i]>> ELSE <<>>) \o WithRole(role, i + 1)

OptionAt(i) ==
    IF Role(i) = "key=value"
    THEN <<SubSeq(Tokens[i], 1, Find(Tokens[i], "=") - 1),
           From(Tokens[i], Find(Tokens[i], "=") + 1)>>
    ELSE <<Tokens[i], Tokens[i + 1]>>

OptionPositions == {i \in 2..Len(Tokens) : Role(i) \in {"key=value", "key"}}

\* each key with the value of its last occurrence
LastOptions ==
    {OptionAt(i) : i \in {k \in OptionPositions :
        \A j \in OptionPositions : j > k => OptionAt(j)[1] # OptionAt(k)[1]}}

ItemsOf(options) == {options[j] : j \in 1..Len(options)}

NoRedirection == \A i \in 2..Len(Tokens) : Tokens[i] \notin redirection_operators

\* C9 as stated: the rules hold for the tokens of every command line.
CounterC9 ==
    parsed.done /\ Tokens # <<>> =>
      /\ parsed.result.base_command = Tokens[1]
      /\ parsed.result.flags = WithRole("flag", 2)
      /\ parsed.result.arguments = WithRole("argument", 2)
      /\ ItemsOf(parsed.result.options) = LastOptions

\* C9: on a command line with no redirection operator among its tokens, a
\* '-' token with '=' is an option split at the first '=', a '-' token
\* without '=' followed by a token not starting with '-' is an option with
\* that token as its value, a '-' token without '=' that is last or followed
\* by a '-' token is a flag, every other token is an argument; flags and
\* arguments keep their order, and a key read more than once keeps the value
\* read last.
ThmC9 ==
    parsed.done /\ Tokens # <<>> /\ NoRedirection =>
      /\ parsed.result.base_command = Tokens[1]
      /\ parsed.result.flags = WithRole("flag", 2)
      /\ parsed.result.arguments = WithRole("argument", 2)
      /\ ItemsOf(parsed.result.options) = LastOptions
      /\ Len(parsed.result.options) = Cardinality(LastOptions)
      /\ parsed.result.redirections = <<>>

\* the spec's example, and a key read twice
WitnessC9 ==
    /\ parsed.done
    /\ \/ /\ cmdText = "grep -r --include=*.py 'foo' src"
          /\ parsed.result.flags = <<"-r">>
          /\ parsed.result.options = << <<"--include", "*.py">> >>
          /\ parsed.result.arguments = <<"foo", "src">>
       \/ /\ cmdText = "grep -I=a -I src"
          /\ parsed.result.options = << <<"-I", "src">> >>

-----------------------------------------------------------------------------
(* The safety checks on command lines.                                     *)

Verbs ==
    {"rm -rf", "RM  -RF", "chown -R root", "chmod -R 777", "echo x >", "echo x >>",
     "ls -la", "curl x |", "wget -qO- x |", "dd", "format", "git", "init", "cat"}

Objects ==
    {"/", "*", "/dev/sda", "/dev/null", "sh", "if=/dev/zero", "C:", "format-patch",
     "0", "~"}

SafetyLines == {v \o " " \o o : v \in Verbs, o \in Objects}

\* CommandParser.is_safe_command is asked
ask_is_safe_command ==
    /\ ~verdict.done
    /\ verdict' = [done |-> TRUE, by |-> "is_safe_command",
                   safe |-> is_safe_command(safeCmd).safe,
                   reason |-> is_safe_command(safeCmd).reason]
    /\ UNCHANGED <<safeCmd, sourceVars, suggestVars, resolverVars,
                   categorizeVars, tokenizeVars, contextVars, fixVars>>

\* CommandProcessor.validate_command_safety is asked
ask_validate_command_safety ==
    /\ ~verdict.done
    /\ verdict' = [done |-> TRUE, by |-> "validate_command_safety",
                   safe |-> validate_command_safety(safeCmd).safe,
                   reason |-> validate_command_safety(safeCmd).reason]
    /\ UNCHANGED <<safeCmd, sourceVars, suggestVars, resolverVars,
                   categorizeVars, tokenizeVars, contextVars, fixVars>>

InitSafe ==
    /\ IdleSource /\ IdleSuggest /\ IdleContext /\ IdleFix
    /\ store = EmptyStore
    /\ now = 0
    /\ writes = 0
    /\ calls = FALSE
    /\ res = NoResult
    /\ analysis = NoAnalysis
    /\ errText = "" /\ categorized = NoCategorized
    /\ cmdText = "" /\ parsed = NoParsed
    /\ safeCmd \in SafetyLines /\ verdict = NoVerdict

NextSafe ==
    \/ ask_is_safe_command
    \/ ask_validate_command_safety

SpecSafe == InitSafe /\ [][NextSafe]_vars

\* the command matches an entry of is_safe_command's deny-list
OnDenyList(command) ==
    \E i \in 1..Len(dangerous_patterns) : Search(dangerous_patterns[i], command, TRUE).ok

\* the command redirects its output to a path under /dev
RedirectsToDevice(command) ==
    \E op \in {">", ">>"} : \E gap \in {"", " "} : Contains(command, op \o gap \o "/dev/")

\* C10: is_safe_command says unsafe for every command on the deny-list and
\* for every command that redirects output to a device path, safe for every
\* other command, and always gives a verdict with a reason.
CounterC10 ==
    verdict.done /\ verdict.by = "is_safe_command" =>
      /\ verdict.safe <=> ~(OnDenyList(safeCmd) \/ RedirectsToDevice(safeCmd))
      /\ verdict.reason # ""

-----------------------------------------------------------------------------
(* The conversation context under records, clears and queries.             *)

\* AdvancedHistoryManager.add_qa_to_context; time.time() is read at every
\* record and is told by the count of records so far
add_qa_to_context(question, answer, has_code) ==
    /\ \E cc \in {add_qa_pair(Context(conversation_memory, current_topic),
                              QA(question, answer, has_code, session.clock + 1))} :
         /\ conversation_memory' = cc.conversation_memory
         /\ current_topic' = cc.current_topic
    /\ session' = [session EXCEPT
                     !.recorded = Append(@, QA(question, answer, has_code,
                                               session.clock + 1)),
                     !.before = current_topic, !.op = "record", !.clock = @ + 1]
    /\ UNCHANGED context
    /\ UNCHANGED <<resolverVars, sourceVars, suggestVars,
                   categorizeVars, tokenizeVars, safetyVars, fixVars>>

\* AdvancedHistoryManager.clear_conversation_context
clear_conversation_context ==
    /\ \E cc \in {clear_context(Context(conversation_memory, current_topic))} :
         /\ conversation_memory' = cc.conversation_memory
         /\ current_topic' = cc.current_topic
    /\ session' = [session EXCEPT !.recorded = <<>>, !.before = current_topic,
                                  !.op = "clear"]
    /\ UNCHANGED context
    /\ UNCHANGED <<resolverVars, sourceVars, suggestVars,
                   categorizeVars, tokenizeVars, safetyVars, fixVars>>

\* AdvancedHistoryManager.get_conversation_context
\* a query that takes the oldest exchange out of the ring and restarts the topic
get_conversation_context_consuming(current_question) ==
    /\ context' = [done |-> TRUE, question |-> current_question,
                   bundle |-> get_context_for_question(
                                  Context(conversation_memory, current_topic),
                                  session.history, current_question)]
    /\ conversation_memory' = IF conversation_memory = <<>> THEN <<>>
                              ELSE Tail(conversation_memory)
    /\ current_topic' = ""
    /\ UNCHANGED session
    /\ UNCHANGED <<resolverVars, sourceVars, suggestVars,
                   categorizeVars, tokenizeVars, safetyVars, fixVars>>

get_conversation_context(current_question) ==
    /\ context' = [done |-> TRUE, question |-> current_question,
                   bundle |-> get_context_for_question(
                                  Context(conversation_memory, current_topic),
                                  session.history, current_question)]
    /\ UNCHANGED <<conversation_memory, current_topic, session>>
    /\ UNCHANGED <<resolverVars, sourceVars, suggestVars,
                   categorizeVars, tokenizeVars, safetyVars, fixVars>>

IdleOthers ==
    /\ store = EmptyStore
    /\ now = 0
    /\ writes = 0
    /\ calls = FALSE
    /\ res = NoResult
    /\ analysis = NoAnalysis
    /\ errText = "" /\ categorized = NoCategorized
    /\ cmdText = "" /\ parsed = NoParsed
    /\ safeCmd = "" /\ verdict = NoVerdict

MaxRecords == 11

RingExchanges == {<<"How do I git commit", "git commit -m msg", TRUE>>,
                  <<"hello there", "hi", FALSE>>}

InitContext == IdleOthers /\ IdleSource /\ IdleSuggest /\ IdleContext /\ IdleFix

NextContext ==
    \/ /\ session.clock < MaxRecords
       /\ \E e \in RingExchanges : add_qa_to_context(e[1], e[2], e[3])
    \/ clear_conversation_context

SpecContext == InitContext /\ [][NextContext]_vars

\* the number of exchanges the ring holds of n recorded
Kept(n) == IF n < 10 THEN n ELSE 10

\* C11: the ring holds at most 10 exchanges and is, in insertion order, the
\* last min(n, 10) of the n exchanges recorded since the most recent clear;
\* once 11 are recorded it holds 10 and the first recorded is not among them.
ThmC11 ==
    LET n == Len(session.recorded)
    IN /\ Len(conversation_memory) <= 10
       /\ Len(conversation_memory) = Kept(n)
       /\ \A i \in 1..Kept(n) :
            conversation_memory[i] = session.recorded[n - Kept(n) + i]
       /\ n >= 11 =>
            /\ Len(conversation_memory) = 10
            /\ \A i \in 1..10 : conversation_memory[i] # session.recorded[1]

WitnessC11 ==
    /\ Len(session.recorded) = 11
    /\ session.op = "record"
    /\ Len(conversation_memory) = 10
    /\ conversation_memory[1] = session.recorded[2]

\* no keyword of any topic is in the question
Unrelated(question) ==
    \A b \in 1..Len(topics) : \A k \in 1..Len(topics[b].keywords) :
        ~Contains(Lower(question), topics[b].keywords[k])

\* C15: a clear leaves the ring empty and the topic unset whatever they were,
\* and a record after it takes its topic from the exchanges recorded since:
\* while none of them names a keyword the topic stays unset.
ThmC15 ==
    /\ session.op = "clear" => conversation_memory = <<>> /\ current_topic = ""
    /\ (/\ session.op = "record"
        /\ \A i \in 1..Len(session.recorded) : Unrelated(session.recorded[i].question))
       => current_topic = ""

WitnessC15 ==
    /\ session.op = "clear"
    /\ session.before = "git"
    /\ session.recorded = <<>>
    /\ conversation_memory = <<>>
    /\ current_topic = ""

-----------------------------------------------------------------------------
(* Topics and related exchanges: questions that name keywords of one or    *)
(* more topics, one answer longer than 200 characters, and a query put to  *)
(* the context at the end.                                                 *)

MaxAsked == 6

Filler == "xxxxxxxxxxxxxxxxxxxxxxxxxxxxxxxxxxxxxxxxxxxxxxxxxx"

\* an answer of 201 characters
LongAnswer == Filler \o Filler \o Filler \o Filler \o "y"

TopicExchanges ==
    {<<"How to Git COMMIT a branch", "use git commit", TRUE>>,
     <<"git docker image in a container", LongAnswer, FALSE>>,
     <<"hello there", "hi", FALSE>>}

Queries == {"how to commit a branch", "a git container image", "unrelated words"}

InitTopic == IdleOthers /\ IdleSource /\ IdleSuggest /\ IdleContext /\ IdleFix

NextTopic ==
    \/ /\ ~context.done
       /\ session.clock < MaxAsked
       /\ \E e \in TopicExchanges : add_qa_to_context(e[1], e[2], e[3])
    \/ /\ ~context.done
       /\ \E q \in Queries : get_conversation_context(q)

SpecTopic == InitTopic /\ [][NextTopic]_vars

\* the question names a keyword of the git topic
NamesGit(question) ==
    \E k \in 1..Len(topics[1].keywords) : Contains(Lower(question), topics[1].keywords[k])

\* the last three exchanges recorded are git questions
ThreeGitQuestions ==
    /\ session.op = "record"
    /\ Len(session.recorded) >= 3
    /\ \A i \in (Len(session.recorded) - 2)..Len(session.recorded) :
          NamesGit(session.recorded[i].question)

\* every topic scores zero over the last three stored questions
NoTopicScores ==
    \A b \in 1..Len(topics) : topic_scores(conversation_memory)[b] = 0

\* C12 as stated: three consecutive recorded questions with git keywords set
\* the topic to git, and a record after which every topic scores zero leaves
\* the topic as it was.
CounterC12 ==
    /\ ThreeGitQuestions => current_topic = "git"
    /\ session.op = "record" /\ NoTopicScores => current_topic = session.before

\* C12: three consecutive recorded questions with git keywords set the topic
\* to git unless another topic scores higher over them, and a record after
\* which every topic scores zero leaves the topic as it was.
ThmC12 ==
    /\ (/\ ThreeGitQuestions
        /\ \A b \in 1..Len(topics) :
              topic_scores(session.recorded)[b] <= topic_scores(session.recorded)[1])
       => current_topic = "git"
    /\ session.op = "record" /\ NoTopicScores => current_topic = session.before

WitnessC12 ==
    /\ session.op = "record"
    /\ NoTopicScores
    /\ session.before = "git"
    /\ current_topic = "git"
    /\ \E i \in 1..(Len(session.recorded) - 3) :
          /\ NamesGit(session.recorded[i].question)
          /\ i >= 3
          /\ NamesGit(session.recorded[i - 1].question)
          /\ NamesGit(session.recorded[i - 2].question)

\* the words two questions share
Shared(a, b) == Cardinality(words_of(a) \cap words_of(b))

\* the last five stored exchanges
Window == LastN(conversation_memory, 5)

RelatedQA == context.bundle.related_qa

\* C13: relatedExchanges gives at most 3 items, each of a stored exchange
\* whose question shares at least 2 words with the query, the more shared
\* words first, and an exchange of the last-5 window that shares more words
\* than a returned one is returned too.
ThmC13 ==
    context.done =>
      /\ Len(RelatedQA) <= 3
      /\ \A i \in 1..Len(RelatedQA) :
           /\ RelatedQA[i].similarity >= 2
           /\ \E j \in 1..Len(conversation_memory) :
                /\ conversation_memory[j].question = RelatedQA[i].question
                /\ Shared(context.question, conversation_memory[j].question)
                     = RelatedQA[i].similarity
      /\ \A i \in 1..(Len(RelatedQA) - 1) :
           RelatedQA[i].similarity >= RelatedQA[i + 1].similarity
      /\ \A j \in 1..Len(Window) : \A i \in 1..Len(RelatedQA) :
           Shared(context.question, Window[j].question) > RelatedQA[i].similarity
           => \E k \in 1..Len(RelatedQA) :
                 /\ RelatedQA[k].question = Window[j].question
                 /\ RelatedQA[k].similarity
                      = Shared(context.question, Window[j].question)

WitnessC13 ==
    /\ context.done
    /\ Len(conversation_memory) = 6
    /\ Len(RelatedQA) = 3
    /\ RelatedQA[1].similarity > RelatedQA[3].similarity
    /\ Cardinality({j \in 1..Len(Window) :
                       Shared(context.question, Window[j].question) >= 2}) >= 4
    /\ Shared(context.question, conversation_memory[1].question) >= 2

\* the stored answers of the exchanges with that question
StoredAnswers(question) ==
    {conversation_memory[j].answer :
        j \in {k \in 1..Len(conversation_memory) :
                  conversation_memory[k].question = question}}

\* C14 as stated: every answer relatedExchanges gives has at most 200
\* characters: the first 200 of a longer stored answer, a shorter one whole.
CounterC14 ==
    context.done =>
      \A i \in 1..Len(RelatedQA) :
        /\ Len(RelatedQA[i].answer) <= 200
        /\ \E a \in StoredAnswers(RelatedQA[i].question) :
             RelatedQA[i].answer = IF Len(a) > 200 THEN SubSeq(a, 1, 200) ELSE a

\* C14: every answer relatedExchanges gives has at most 203 characters: the
\* first 200 of a longer stored answer followed by "...", a shorter one whole.
ThmC14 ==
    context.done =>
      \A i \in 1..Len(RelatedQA) :
        /\ Len(RelatedQA[i].answer) <= 203
        /\ \E a \in StoredAnswers(RelatedQA[i].question) :
             RelatedQA[i].answer
               = IF Len(a) > 200 THEN SubSeq(a, 1, 200) \o "..." ELSE a

WitnessC14 ==
    /\ context.done
    /\ \E i \in 1..Len(RelatedQA) :
         /\ Len(RelatedQA[i].answer) = 203
         /\ LongAnswer \in StoredAnswers(RelatedQA[i].question)
    /\ \E i \in 1..Len(RelatedQA) : Len(RelatedQA[i].answer) < 200

-----------------------------------------------------------------------------
(* Freshness of everything a result is built from.                         *)

\* the file is older than the window of the LastError family
Stale(f) == store[f].exists /\ now - store[f].mtime > FRESH_ERROR

\* the file went into result r of a call made on the present store: as the
\* source of its text, as its "Failed command" suffix, or as the exit code
\* the shell-history strategy read for its report
Contributes(f, r) ==
    \/ f = r.src
    \/ f = LAST_COMMAND /\ r.strategy = 1 /\ Contains(r.text, "\nFailed command: ")
    \/ /\ f = LAST_EXIT_CODE /\ r.strategy = 2 /\ r.src = LAST_COMMAND
       /\ store[f].exists /\ store[f].mode = "ok"

\* C16: no file of the LastError family older than 30 seconds contributes to
\* a result of the resolver, neither to the shell-history strategy's report
\* nor to the "Failed command" suffix.
CounterC16 ==
    [][(calls' /\ now' = now /\ writes' = writes /\ res'.kind = "value")
       => \A f \in error_family : Contributes(f, res') => ~Stale(f)]_vars

-----------------------------------------------------------------------------
(* One failure and the tool: bash's command_not_found_handle writes its    *)
(* files one after the other, files are deleted or damaged by others, and  *)
(* `aicmd fix`, `aicmd suggest` and `aicmd explain` are run in between.    *)

MaxRuns == 2

\* the command typed and its arguments
Failures == {<<"gti", "st">>}

\* what echo leaves in the file the hook writes at step pc
hook_text(cmd, args, pc) ==
    CASE pc = 0 -> IF args # ""
                   THEN "bash: " \o cmd \o ": command not found (full command: "
                        \o cmd \o " " \o args \o ")\n"
                   ELSE "bash: " \o cmd \o ": command not found\n"
      [] pc = 1 -> IF args # "" THEN cmd \o " " \o args \o "\n" ELSE cmd \o "\n"
      [] pc = 2 -> "127\n"
      [] pc = 3 -> "Command '" \o cmd \o "' not found\n"

hook_files == <<LAST_ERROR, LAST_COMMAND, LAST_EXIT_CODE, SIMPLE_ERROR>>

\* the next redirection of command_not_found_handle (the timestamp file, which
\* nothing reads, is left out)
command_not_found_handle ==
    /\ hook.pc < Len(hook_files)
    /\ store' = [store EXCEPT ![hook_files[hook.pc + 1]] =
                    File(hook_text(hook.cmd, hook.args, hook.pc), now, "ok")]
    /\ hook' = [hook EXCEPT !.pc = @ + 1]
    /\ UNCHANGED <<now, writes, calls, res, analysis, detected, executed>>
    /\ UNCHANGED <<sourceVars, suggestVars,
                   categorizeVars, tokenizeVars, safetyVars, contextVars>>

\* aicmd_cleanup of the shell integration: rm -f of the files older than a
\* minute
aicmd_cleanup ==
    /\ store' = [f \in Files |->
                   IF f \in error_family /\ store[f].exists /\ now - store[f].mtime > 60
                   THEN NoFile ELSE store[f]]
    /\ UNCHANGED <<now, writes, calls, res, analysis, hook, detected, executed>>
    /\ UNCHANGED <<sourceVars, suggestVars,
                   categorizeVars, tokenizeVars, safetyVars, contextVars>>

\* something else gets at file f while the tool is about to read it: the
\* file is being deleted ("vanishing"), has lost its read permission
\* ("unreadable") or is cut inside a character ("binary")
Race(f, mode) ==
    /\ store[f].exists /\ store[f].mode = "ok"
    /\ store' = [store EXCEPT ![f].mode = mode]
    /\ UNCHANGED <<now, writes, calls, res, analysis, hook, detected, executed>>
    /\ UNCHANGED <<sourceVars, suggestVars,
                   categorizeVars, tokenizeVars, safetyVars, contextVars>>

\* the store once the files that were being deleted are gone
Vanished(st) ==
    [f \in Files |-> IF st[f].exists /\ st[f].mode = "vanishing" THEN NoFile ELSE st[f]]

\* what the processor hands back: None, or the parsed reply of the model
NoReply == [has |-> FALSE, explanation |-> "", command |-> ""]

Reply(explanation, command) ==
    [has |-> TRUE, explanation |-> explanation, command |-> command]

Replies == {NoReply, Reply("nothing to run", ""), Reply("list the files", "ls -la"),
            Reply("start over", "rm -rf /tmp/x")}

\* lines 289-307 of handle_single_command: the suggested command is run when
\* auto_execute is set, or else when the user answers yes
run_suggested(result, action, auto_execute, consent) ==
    IF /\ result.has /\ action # "chat" /\ result.command # ""
       /\ (auto_execute \/ consent)
    THEN Append(executed, [command |-> result.command, auto |-> auto_execute])
    ELSE executed

handle_single_command(action, input_text, auto_execute, result, consent, env) ==
    /\ IF action = "fix" /\ Strip(input_text) = ""
       THEN \E r \in {detect_last_error(store, now, env)} :
              /\ store' = Vanished(r.store)
              /\ calls' = TRUE
              /\ res' = [NoResult EXCEPT !.kind = r.kind, !.text = r.text,
                                         !.src = r.src, !.age = r.age,
                                         !.strategy = r.strategy,
                                         !.invoked = r.invoked,
                                         !.raised = r.raised, !.at = now]
              /\ hook' = [hook EXCEPT !.raced =
                            {f \in Files : store[f].exists /\ store[f].mode # "ok"}]
              /\ detected' = IF r.kind = "value" THEN Append(detected, r.text)
                             ELSE detected
              /\ executed' = IF r.kind = "value"
                             THEN run_suggested(result, action, auto_execute, consent)
                             ELSE executed
       ELSE /\ executed' = IF action \in {"fix", "suggest", "explain"}
                           THEN run_suggested(result, action, auto_execute, consent)
                           ELSE executed
            /\ UNCHANGED <<store, calls, res, hook, detected>>
    /\ UNCHANGED <<now, writes, analysis>>
    /\ UNCHANGED <<sourceVars, suggestVars,
                   categorizeVars, tokenizeVars, safetyVars, contextVars>>

FixTimes == {0, 61}

\* the action and text the tool is run with
Invocations == {<<"fix", "">>, <<"fix", "lls: command not found">>,
                <<"suggest", "list files">>, <<"chat", "what is ls">>}

\* auto_execute, and what the user answers when asked
Answers == {<<TRUE, FALSE>>, <<FALSE, TRUE>>, <<FALSE, FALSE>>}

FixEnv == Env("bash", NoHistory, Probe("ok", "0\n"), STDERR_A)

InitFix ==
    /\ IdleOthers /\ IdleSource /\ IdleSuggest /\ IdleContext
    /\ \E failure \in Failures : hook = [NoHook EXCEPT !.cmd = failure[1],
                                                      !.args = failure[2]]
    /\ detected = <<>>
    /\ executed = <<>>

NextFix ==
    \/ command_not_found_handle
    \/ aicmd_cleanup
    \/ \E t \in FixTimes : Tick(t)
    \/ \E f \in {LAST_ERROR, LAST_COMMAND} :
         \E mode \in {"vanishing", "unreadable", "binary"} : Race(f, mode)
    \/ /\ Len(detected) < MaxRuns /\ Len(executed) < MaxRuns
       /\ \E run \in Invocations : \E answer \in Answers : \E result \in Replies :
            handle_single_command(run[1], run[2], answer[1], result, answer[2], FixEnv)

SpecFix == InitFix /\ [][NextFix]_vars

\* C17: the one failure the hook writes its files for is returned by at most
\* one run of the resolver, however the runs fall between the hook's writes.
CounterC17 == Len(detected) <= 1

\* C18: with files vanishing, unreadable or cut while the resolver runs, the
\* call completes with an error text or with "no error detected" and no
\* exception leaves it.
ThmC18 ==
    calls =>
      /\ res.kind \in {"value", "none"}
      /\ res.kind = "value" <=> res.text # ""
      /\ \A f \in hook.raced : res.src # f

\* a file was vanishing and another cut when the call was made, and it gave
\* the error of a third
WitnessC18 ==
    /\ calls
    /\ res.kind = "value"
    /\ \E f \in hook.raced : ~store[f].exists
    /\ Cardinality(hook.raced) >= 2
    /\ res.strategy = 1

\* C20: a suggested command is run on its own, auto-execute being set, only
\* when the safety check judges it safe.
CounterC20 ==
    \A i \in 1..Len(executed) :
        executed[i].auto => is_safe_command(executed[i].command).safe

-----------------------------------------------------------------------------
(* A chat session: chat_mode reads a line, and either obeys it as a        *)
(* command of the session or takes it as a question.                       *)

MaxChat == 3

\* HistoryManager.add_command: the stripped command is appended to the
\* history file unless it is one of the session's own words
add_command(lines, command) ==
    IF Strip(command) \in {"", "help", "quit", "exit", "q", "clear"} THEN lines
    ELSE Append(lines, Strip(command))

\* processor.ask_question(user_input, conversation_context): CommandProcessor
\* defines no such method, so the call raises AttributeError
NoMethod == [has |-> FALSE, answer |-> "", has_code |-> FALSE]

\* the answer of an ask_question that is there
Answer(answer, has_code) == [has |-> TRUE, answer |-> answer, has_code |-> has_code]

\* one turn of the loop of chat_mode on the line read; an exception other
\* than EOFError and KeyboardInterrupt ends the loop
chat_mode(line, result) ==
    LET user_input == Strip(line)
        word == Lower(user_input)
    IN /\ session.op \notin {"quit", "raised"}
       /\ CASE user_input = "" ->
                 UNCHANGED <<conversation_memory, current_topic, context, session>>
            [] word \in {"quit", "exit", "q"} ->
                 /\ session' = [session EXCEPT !.op = "quit"]
                 /\ UNCHANGED <<conversation_memory, current_topic, context>>
            [] word \in {"help", "clear", "history"} \/ StartsWith(word, "search ") ->
                 UNCHANGED <<conversation_memory, current_topic, context, session>>
            [] word = "context" ->
                 /\ context' = [done |-> TRUE, question |-> "",
                                bundle |-> get_context_for_question(
                                              Context(conversation_memory, current_topic),
                                              session.history, "")]
                 /\ session' = [session EXCEPT !.op = "context"]
                 /\ UNCHANGED <<conversation_memory, current_topic>>
            [] word = "clear-context" ->
                 /\ \E cc \in {clear_context(Context(conversation_memory,
                                                     current_topic))} :
                      /\ conversation_memory' = cc.conversation_memory
                      /\ current_topic' = cc.current_topic
                 /\ session' = [session EXCEPT !.op = "clear", !.answered = <<>>,
                                               !.before = current_topic]
                 /\ UNCHANGED context
            [] word = "clear-history" ->
                 /\ session' = [session EXCEPT !.op = "clear-history",
                                               !.history = <<>>]
                 /\ UNCHANGED <<conversation_memory, current_topic, context>>
            [] OTHER ->
                 /\ context' = [done |-> TRUE, question |-> user_input,
                                bundle |-> get_context_for_question(
                                              Context(conversation_memory, current_topic),
                                              add_command(session.history, user_input),
                                              user_input)]
                 /\ session' = [session EXCEPT
                                  !.op = IF result.has THEN "question" ELSE "raised",
                                  !.history = add_command(@, user_input),
                                  !.answered = IF result.has
                                               THEN Append(@, <<user_input, result.answer>>)
                                               ELSE @]
                 /\ UNCHANGED <<conversation_memory, current_topic>>
       /\ UNCHANGED <<resolverVars, sourceVars, suggestVars,
                      categorizeVars, tokenizeVars, safetyVars, fixVars>>

ChatLines == {"How do I git commit", "what is a git branch ", "context",
              "clear-context", "Clear-History", "quit", " "}

ChatAnswers == {NoMethod, Answer("use git commit", TRUE)}

InitChat == IdleOthers /\ IdleSource /\ IdleSuggest /\ IdleContext /\ IdleFix

NextChat ==
    /\ Len(session.history) < MaxChat
    /\ Len(session.answered) < MaxChat
    /\ \E line \in ChatLines : \E result \in ChatAnswers : chat_mode(line, result)

SpecChat == InitChat /\ [][NextChat]_vars

\* C19: in a chat session every question that got an answer is in the ring,
\* with its answer, by the time the context of the next question is computed
\* (the questions answered since the context was last cleared, which are
\* fewer than 10 here).
CounterC19 ==
    \A i \in 1..Len(session.answered) :
        \E j \in 1..Len(conversation_memory) :
            /\ conversation_memory[j].question = session.answered[i][1]
            /\ conversation_memory[j].answer = session.answered[i][2]

-----------------------------------------------------------------------------
(* One source at a time: hooks write evidence files, time passes, and one  *)
(* source of the resolver is called on what they left.                     *)

\* what may be found in a file; a stderr capture may be blank as well
\* and a command file may hold a command and refuse to be opened
SourceContents(f) ==
    CASE f = STDERR_B -> HookContents(f) \cup {<<" \n", "ok">>}
      [] f = LAST_COMMAND -> HookContents(f) \cup {<<"lls\n", "unreadable">>}
      [] OTHER -> HookContents(f)

\* error = source_func(logger), for one source
source_func(i, env) ==
    /\ asked.strategy = 0
    /\ \E o \in {call_source(i, store, now, env)} :
          /\ store' = o.store
          /\ asked' = [strategy |-> i, env |-> env, before |-> store,
                       kind |-> o.kind, text |-> o.text, src |-> o.src,
                       age |-> o.age]
    /\ UNCHANGED <<now, writes, calls, res, analysis>>
    /\ UNCHANGED <<suggestVars,
                   categorizeVars, tokenizeVars, safetyVars, contextVars, fixVars>>

\* the surroundings of a call, a shell whose binary is missing among them
SourceEnvs ==
    Envs \cup {Env("zsh", NoHistory, Probe("missing", ""), STDERR_A),
               Env("fish", NoHistory, Probe("ok", "1\n"), STDERR_A)}

InitSource == InitResolver

NextSource ==
    \/ \E f \in Files : \E w \in SourceContents(f) :
          asked.strategy = 0 /\ HookWrite(f, w)
    \/ \E t \in Times : asked.strategy = 0 /\ Tick(t)
    \/ \E i \in 1..Len(error_sources) : \E env \in SourceEnvs : source_func(i, env)

SpecSource == InitSource /\ [][NextSource]_vars

-----------------------------------------------------------------------------
(* Properties of the sources, each called alone.                           *)

\* the text of an evidence file a reader gets: blank when there is no file
\* or it cannot be read
TextOf(st, f) == IF st[f].exists /\ st[f].mode = "ok" THEN Strip(st[f].content) ELSE ""

\* the source gave an error it took from the evidence files
FromEvidence == asked.kind = "value" /\ asked.src \in Files

\* C21: with a non-empty LastCommand, the shell-history source says
\* "Command '<cmd>' not found" when LastExitCode is 127, "Command '<cmd>'
\* failed" when it is any other non-zero code, and reports no failure from
\* the evidence files when it is 0.
CounterC21 ==
    LET cmd == TextOf(asked.before, LAST_COMMAND)
        code == TextOf(asked.before, LAST_EXIT_CODE)
    IN asked.strategy = 2 /\ cmd # "" /\ IsDigit(code) =>
         CASE ToInt(code) = 127 ->
                FromEvidence /\ asked.text = "Command '" \o cmd \o "' not found"
           [] ToInt(code) = 0 -> ~FromEvidence
           [] OTHER ->
                FromEvidence /\ asked.text = "Command '" \o cmd \o "' failed"

\* C22: when LastExitCode holds a text that is no number, the shell-history
\* source gives no result from the evidence files and raises nothing.
CounterC22 ==
    LET e == asked.before[LAST_EXIT_CODE]
    IN asked.strategy = 2 /\ e.exists /\ e.mode = "ok" /\ ~IsDigit(Strip(e.content)) =>
         asked.kind # "raise" /\ ~FromEvidence

\* the shells the exit-code probe knows
ProbedShells == {"bash", "zsh", "fish"}

\* C23: the exit-code probe says "Last command failed with exit code N" only
\* when the probed shell echoed a non-zero number N; a zero status, an empty
\* output, an unsupported shell, a missing shell binary or a probe that
\* timed out give no result and no exception.
CounterC23 ==
    LET probe == asked.env.probe
        out == Strip(probe.out)
    IN asked.strategy = 3 =>
         /\ asked.kind = "value" =>
               /\ asked.env.shell \in ProbedShells /\ probe.kind = "ok"
               /\ IsDigit(out) /\ ToInt(out) # 0
               /\ asked.text = "Last command failed with exit code " \o out
         /\ \/ asked.env.shell \notin ProbedShells
            \/ probe.kind \in {"missing", "timeout"}
            \/ probe.kind = "ok" /\ out \in {"0", ""}
            => asked.kind = "none"

\* the stderr captures the call found, and the most recently modified of them
Captures == {f \in StderrFiles : asked.before[f].exists}

Newest ==
    {f \in Captures : \A g \in Captures : asked.before[g].mtime <= asked.before[f].mtime}

\* younger than 60 seconds at the call, readable and not blank
Usable(f) ==
    /\ now - asked.before[f].mtime < 60
    /\ TextOf(asked.before, f) # ""

Suffixed(err, cmd) == err \o "\nFailed command: " \o cmd

\* C25: when the evidence-file source succeeds, its result is the trimmed
\* error text alone if LastCommand is absent, empty or already part of that
\* text, and otherwise the error text, a newline and "Failed command:
\* <LastCommand>"; LastCommand is read before the purge.
CounterC25 ==
    LET err == TextOf(asked.before, asked.src)
        c == asked.before[LAST_COMMAND]
        cmd == Strip(c.content)
    IN asked.strategy = 1 /\ asked.kind = "value" =>
         asked.text = IF ~c.exists \/ cmd = "" \/ Contains(err, cmd)
                      THEN err ELSE Suffixed(err, cmd)

\* C25, amended: the result is the trimmed error text alone if LastCommand
\* is absent, cannot be read, is empty or is already part of that text, and
\* otherwise the error text, a newline and "Failed command: <LastCommand>";
\* the command is the one the file held before the purge removed it.
ThmC25 ==
    LET err == TextOf(asked.before, asked.src)
        cmd == TextOf(asked.before, LAST_COMMAND)
    IN asked.strategy = 1 /\ asked.kind = "value" =>
         /\ asked.text = IF cmd = "" \/ Contains(err, cmd)
                         THEN err ELSE Suffixed(err, cmd)
         /\ ~store[LAST_COMMAND].exists

\* a command that is not part of the error text was appended, and its file
\* is gone
WitnessC25 ==
    /\ asked.strategy = 1 /\ asked.kind = "value"
    /\ asked.before[LAST_COMMAND].exists /\ ~store[LAST_COMMAND].exists
    /\ asked.text = Suffixed(TextOf(asked.before, asked.src), "lls")

\* C26: the shell-history source never changes the Evidence Store: every
\* evidence file there before the call is there after it with the same
\* content, whether the source returns a result or not.
ThmC26 == asked.strategy = 2 => store = asked.before

\* the source took its result from files that are still there
WitnessC26 ==
    /\ asked.strategy = 2 /\ FromEvidence
    /\ store[LAST_COMMAND].exists /\ store[LAST_EXIT_CODE].exists

-----------------------------------------------------------------------------
(* More properties of the tokenizer.                                       *)

\* the redirections of the tokens from position i on: each operator that is
\* not the target of the one before it, with the token after it
RECURSIVE RedirectionsFrom(_)
RedirectionsFrom(i) ==
    IF i > Len(Tokens) THEN <<>>
    ELSE IF Tokens[i] \in redirection_operators
    THEN << <<Tokens[i], IF i < Len(Tokens) THEN Tokens[i + 1] ELSE "">> >>
         \o RedirectionsFrom(i + 2)
    ELSE RedirectionsFrom(i + 1)

\* C27: each token after the first that is a redirection operator and not
\* the target of a redirection before it gives one entry (operator,
\* following token) of redirections, with "" as the target when it is the
\* last token; no redirection operator is recorded as the value of an
\* option or as an argument.
CounterC27 ==
    parsed.done /\ Tokens # <<>> =>
      /\ parsed.result.redirections = RedirectionsFrom(2)
      /\ \A j \in 1..Len(parsed.result.options) :
            parsed.result.options[j][2] \notin redirection_operators
      /\ \A k \in 1..Len(parsed.result.arguments) :
            parsed.result.arguments[k] \notin redirection_operators

\* the result of an empty command line
EmptyParsed == Parsed("", "", <<>>, <<>>, <<>>, <<>>)

\* the command line parsed from its runs of non-whitespace characters
WhitespaceParsed ==
    LET parts == str_split(cmdText)
    IN IF parts = <<>> THEN EmptyParsed
       ELSE parse_loop(parts, 2, Parsed(cmdText, parts[1], <<>>, <<>>, <<>>, <<>>))

\* C28: the tokenizer gives a result for every command line: when the
\* quote-aware splitting fails (an unbalanced quote, say) the result is the
\* one obtained from plain whitespace splitting, and an empty or
\* whitespace-only line gives an empty base command and empty collections.
ThmC28 ==
    parsed.done =>
      /\ DOMAIN parsed.result = DOMAIN EmptyParsed
      /\ ~shlex_split(cmdText).ok =>
            parsed.result = WhitespaceParsed /\ parsed.result.base_command # ""
      /\ Strip(cmdText) = "" => parsed.result = EmptyParsed

\* an unbalanced quote: the words are kept as they were written
WitnessC28 ==
    /\ parsed.done /\ ~shlex_split(cmdText).ok
    /\ parsed.result.arguments = <<"'foo'", "it's">>

-----------------------------------------------------------------------------
(* The fix suggester on failed command lines.                              *)

\* commands of the typo table, of the alternatives table and of neither
SuggestCommands ==
    typo_keys \cup {"ls", "ll", "cat", "grep", "ps", "kill", "wget", "curl", "python",
                    "pip", "node", "npm", "git", "docker", "vim", "nano"}
              \cup {"lls", "apt", ""}

SuggestLines == {c \o a : c \in SuggestCommands, a \in {"", " -la", " foo.txt"}}

Categories ==
    {"command_not_found", "permission_denied", "file_not_found", "package_not_found",
     "unknown"}

\* the suggester is asked for fixes of the command line
suggest(error_category) ==
    /\ ~suggestions.done
    /\ suggestions' = [done |-> TRUE, category |-> error_category,
                       result |-> suggest_command_fixes(cmdText, error_category)]
    /\ UNCHANGED <<resolverVars, sourceVars, categorizeVars, tokenizeVars, safetyVars,
                   contextVars, fixVars>>

InitSuggest ==
    /\ IdleSource /\ IdleSuggest /\ IdleContext /\ IdleFix
    /\ store = EmptyStore
    /\ now = 0
    /\ writes = 0
    /\ calls = FALSE
    /\ res = NoResult
    /\ analysis = NoAnalysis
    /\ errText = "" /\ categorized = NoCategorized
    /\ cmdText \in SuggestLines /\ parsed = NoParsed
    /\ safeCmd = "" /\ verdict = NoVerdict

NextSuggest == \E c \in Categories : suggest(c)

SpecSuggest == InitSuggest /\ [][NextSuggest]_vars

\* the base command of the command line
BaseCommand == IF Tokens = <<>> THEN "" ELSE Tokens[1]

\* C29: for the category command_not_found, a base command that is a key of
\* the typo table gets a list whose first element is the typo table's
\* correction, followed by the entries of the alternatives table for that
\* base command in the table's order; a base command in neither table gets
\* the empty list.
ThmC29 ==
    suggestions.done /\ suggestions.category = "command_not_found" =>
      /\ BaseCommand \in typo_keys =>
            /\ suggestions.result # <<>>
            /\ Head(suggestions.result) = typo_corrections(BaseCommand)
            /\ Tail(suggestions.result) = alternatives(BaseCommand)
      /\ BaseCommand \notin typo_keys /\ alternatives(BaseCommand) = <<>> =>
            suggestions.result = <<>>

\* a typo, written with an argument, and its correction
WitnessC29 ==
    /\ suggestions.done /\ suggestions.category = "command_not_found"
    /\ cmdText = "sl -la" /\ suggestions.result = <<"ls">>

-----------------------------------------------------------------------------
(* The topic after a record.                                               *)

\* the last three questions recorded, lower-cased
LastQuestions ==
    LET n == Len(session.recorded)
        from == IF n > 3 THEN n - 2 ELSE 1
    IN [i \in 1..(n - from + 1) |-> Lower(session.recorded[from + i - 1].question)]

\* the keyword hits of bucket b over them
Hits(b) == topic_score(topics[b].keywords, LastQuestions)

\* C30: after every record, if some topic bucket has a keyword-hit score
\* above zero over the last 3 stored questions, the topic is a bucket with
\* the highest score over those 3 questions, whatever the topic was before
\* and whatever was recorded before the last 3.
ThmC30 ==
    session.op = "record" /\ (\E b \in 1..Len(topics) : Hits(b) > 0) =>
      \E b \in 1..Len(topics) :
         /\ current_topic = topics[b].topic
         /\ \A c \in 1..Len(topics) : Hits(c) <= Hits(b)

\* the topic was git, git questions lie further back than the last three,
\* and the topic is docker now
WitnessC30 ==
    /\ session.op = "record" /\ Len(session.recorded) > 3
    /\ NamesGit(session.recorded[1].question)
    /\ session.before = "git" /\ current_topic = "docker"

-----------------------------------------------------------------------------
(* A chat session on the context: exchanges are recorded, the context is   *)
(* cleared and it is queried, in any order.                                *)

MaxSession == 4

\* two questions that each name two topics once, and one that names none
SessionExchanges ==
    {<<"git python tips", "see git-scm.com", FALSE>>,
     <<"docker python tips", "see docs.docker.com", FALSE>>,
     <<"hello there", "hi", FALSE>>}

SessionQueries == {"python tips now", "docker python tips", "unrelated words"}

InitSession == IdleOthers /\ IdleSource /\ IdleSuggest /\ IdleContext /\ IdleFix

NextSession ==
    \/ /\ session.clock < MaxSession
       /\ \E e \in SessionExchanges : add_qa_to_context(e[1], e[2], e[3])
    \/ clear_conversation_context
    \/ \E q \in SessionQueries : get_conversation_context(q)

SpecSession == InitSession /\ [][NextSession]_vars

\* the names of the topic buckets
TopicNames == {topics[b].topic : b \in 1..Len(topics)}

\* the step records an exchange; the step clears the context
IsRecord == session'.clock = session.clock + 1

IsClear == session'.clock = session.clock /\ session'.op = "clear"

\* C31: once the topic is set it stays set, to some bucket, after every
\* later record, whatever the questions; only a clear unsets it, and no
\* operation other than a record and a clear changes it.
ThmC31 ==
    [][/\ current_topic # "" /\ IsRecord => current_topic' \in TopicNames
       /\ current_topic # "" /\ current_topic' = "" => IsClear
       /\ current_topic' # current_topic => IsRecord \/ IsClear]_vars

\* the context was queried, and after three records in a row that name no
\* topic the topic is still the one set before them
WitnessC31 ==
    /\ context.done /\ session.op = "record"
    /\ Len(session.recorded) = 4
    /\ \A i \in 2..4 : Unrelated(session.recorded[i].question)
    /\ current_topic = "git"

-----------------------------------------------------------------------------
(* More properties of relatedExchanges.                                    *)

\* the questions of the last five stored exchanges
WindowQuestions == {Window[j].question : j \in 1..Len(Window)}

\* C32: relatedExchanges gives only exchanges that are among the last 5
\* stored ones: an exchange sixth or further from the end of the ring is
\* never given, however many words it shares with the query.
ThmC32 ==
    context.done =>
      \A i \in 1..Len(RelatedQA) :
         \E j \in 1..Len(Window) :
            /\ Window[j].question = RelatedQA[i].question
            /\ RelatedQA[i].similarity = Shared(context.question, Window[j].question)

\* the sixth exchange from the end shares five words with the query, none of
\* the last five is like it, and it is not given
WitnessC32 ==
    /\ context.done
    /\ Len(conversation_memory) = 6
    /\ Shared(context.question, conversation_memory[1].question) = 5
    /\ conversation_memory[1].question \notin WindowQuestions
    /\ \A i \in 1..Len(RelatedQA) :
          RelatedQA[i].question # conversation_memory[1].question

\* relatedExchanges on rings of exchanges that tie: the exchanges of a
\* session are recorded, then the context is queried once
InitRelated == InitSession

NextRelated ==
    \/ /\ ~context.done
       /\ session.clock < MaxSession
       /\ \E e \in SessionExchanges : add_qa_to_context(e[1], e[2], e[3])
    \/ /\ ~context.done
       /\ \E q \in SessionQueries : get_conversation_context(q)

SpecRelated == InitRelated /\ [][NextRelated]_vars

\* the shared-word count of the exchange at position j of the window
Similarity(j) == Shared(context.question, Window[j].question)

\* the positions of the window that qualify
Qualifying == {j \in 1..Len(Window) : Similarity(j) >= 2}

\* the place of position k in the answer: behind those with more shared
\* words and behind the older ones with as many
Place(k) ==
    1 + Cardinality({j \in Qualifying :
                        \/ Similarity(j) > Similarity(k)
                        \/ Similarity(j) = Similarity(k) /\ j < k})

\* C33: exchanges with the same shared-word count are given in the order
\* they were stored, the older first, and when more than 3 exchanges
\* qualify the ones left out are the last in that ordering.
ThmC33 ==
    context.done =>
      /\ Len(RelatedQA) = IF Cardinality(Qualifying) > 3 THEN 3
                          ELSE Cardinality(Qualifying)
      /\ \A k \in Qualifying :
            Place(k) <= 3 =>
              /\ RelatedQA[Place(k)].question = Window[k].question
              /\ RelatedQA[Place(k)].answer = Window[k].answer
              /\ RelatedQA[Place(k)].similarity = Similarity(k)

\* four exchanges with two shared words each, two questions in turn: the
\* first three are given, in the order they were stored
WitnessC33 ==
    /\ context.done
    /\ Cardinality(Qualifying) = 4
    /\ \A k \in Qualifying : Similarity(k) = 2
    /\ Window[1].question # Window[2].question
    /\ Window[2].question # Window[3].question
    /\ \A i \in 1..3 : RelatedQA[i].question = Window[i].question

-----------------------------------------------------------------------------
(* What a call leaves of the Evidence Store.                               *)

\* a record the call found stale (older than 30 seconds) or empty
StaleOrEmpty(f) ==
    /\ asked.before[f].exists /\ asked.before[f].mode = "ok"
    /\ \/ now - asked.before[f].mtime > 30
       \/ TextOf(asked.before, f) = ""

\* the files the evidence-file source looks at
Candidates == {temp_files[i] : i \in 1..Len(temp_files)}

\* C34: when the evidence-file source returns no result it leaves the
\* Evidence Store unchanged: the purge runs only in a call that returns a
\* non-empty result, so no stale or empty record is ever deleted.
CounterC34 ==
    asked.strategy = 1 =>
      /\ asked.kind # "value" => store = asked.before
      /\ \A f \in Candidates : StaleOrEmpty(f) => store[f] = asked.before[f]

\* C34, amended: when the evidence-file source returns no result it leaves
\* the Evidence Store unchanged: the purge runs only in a call that returns
\* a non-empty result, so a call that returns none deletes no stale or
\* empty record.
ThmC34 ==
    asked.strategy = 1 =>
      /\ asked.kind # "value" => store = asked.before
      /\ store # asked.before => asked.kind = "value" /\ asked.text # ""

\* a stale error file and an empty one were found, nothing was returned and
\* both are still there
WitnessC34 ==
    /\ asked.strategy = 1 /\ asked.kind = "none"
    /\ \E f \in Candidates : StaleOrEmpty(f) /\ now - asked.before[f].mtime > 30
                             /\ TextOf(asked.before, f) # "" /\ store[f].exists
    /\ \E f \in Candidates : StaleOrEmpty(f) /\ TextOf(asked.before, f) = ""
                             /\ store[f].exists

\* the files no purge touches
Unpurged == StderrFiles \cup {ERROR_PID}

-----------------------------------------------------------------------------
(* What a query leaves of the conversation.                                *)

\* a step that answered a query
IsQuery == session' = session /\ context'.done

\* C36: the related-exchange search and the context query only read: a
\* query step, with any question and however often, leaves the exchange
\* ring and the current topic as they were.
ThmC36 ==
    [][/\ IsQuery => /\ conversation_memory' = conversation_memory
                     /\ current_topic' = current_topic
       /\ context' # context => IsQuery]_vars

\* a query found three related exchanges, and the ring of four and its topic
\* are still there
WitnessC36 ==
    /\ context.done /\ Len(RelatedQA) = 3
    /\ session.clock = 4 /\ Len(conversation_memory) = 4
    /\ current_topic # ""
    /\ \A i \in 1..4 : conversation_memory[i] = session.recorded[i]

-----------------------------------------------------------------------------
(* Buckets that tie.                                                       *)

\* the buckets that share the highest score over the last 3 questions
Tied == {b \in 1..Len(topics) : \A c \in 1..Len(topics) : Hits(c) <= Hits(b)}

\* the tied bucket declared first
FirstTied == CHOOSE b \in Tied : \A c \in Tied : b <= c

\* C37: when two or more buckets tie for the highest non-zero score over
\* the last 3 questions, the current topic becomes the tied bucket declared
\* first in the order git, python, javascript, docker, linux, database, web;
\* the topic is thereby a function of the questions recorded.
ThmC37 ==
    /\ [b \in 1..Len(topics) |-> topics[b].topic]
         = <<"git", "python", "javascript", "docker", "linux", "database", "web">>
    /\ session.op = "record" /\ Cardinality(Tied) >= 2 /\ Hits(FirstTied) > 0
         => current_topic = topics[FirstTied].topic

\* python and docker tie above git after a record, and python is the topic
WitnessC37 ==
    /\ session.op = "record" /\ Cardinality(Tied) = 2
    /\ Hits(FirstTied) > 0
    /\ {topics[b].topic : b \in Tied} = {"python", "docker"}
    /\ session.before = "git" /\ current_topic = "python"

-----------------------------------------------------------------------------
(* The two safety checks side by side.                                     *)

\* C38: CommandParser.is_safe_command and
\* CommandProcessor.validate_command_safety give the same safe/unsafe
\* verdict for every command string.
CounterC38 ==
    verdict.done =>
      /\ verdict.safe = is_safe_command(safeCmd).safe
      /\ verdict.safe = validate_command_safety(safeCmd).safe

\* a recursive chown passes validate_command_safety
ChownPasses ==
    /\ verdict.done /\ verdict.by = "validate_command_safety"
    /\ safeCmd = "chown -R root /"
    /\ verdict.safe /\ ~is_safe_command(safeCmd).safe

====
